---- MODULE Spec2Model ----
(***************************************************************************)
(* Model of the UI-Scraper job lifecycle (backend/app/api/jobs.py,         *)
(* backend/app/services/job_runner.py), of the merge-on-write persistence  *)
(* layer (utils/mongodb_client.py), of the LLM extraction service          *)
(* (scrapers/llm_data_extraction.py) and of the website and search         *)
(* orchestrators (scrapers/websites_scraping.py, searches_scraping.py,     *)
(* websites_scraping_with_db.py), of the two page fetchers                 *)
(* (utils/helpers.py), of the pipeline hand-over (main.py) and of the      *)
(* search URL builders.                                                    *)
(*                                                                         *)
(* The document store is the shared state.  Every `await` on a store call  *)
(* is a suspension point of the asyncio event loop, so every store call is *)
(* one atomic step and the code between two store calls belongs to the     *)
(* step of the call that precedes it.                                      *)
(***************************************************************************)
EXTENDS Integers, Sequences, FiniteSets, TLC

VARIABLES
    jobs,       \* the `jobs` collection: job documents, _id = position
    tasks,      \* one background run_scraping_job task per created job
    resp,       \* the response of cancel_job on its way to the client
    store,      \* the `businesses` collection: documents, _id = position
    sv,         \* the save_businesses call of each caller: its locals
    twice,      \* the caller that saves one entity twice in a row
    order,      \* the caller that saves two entities in one order, and the
                \* collection that the other order gives
    ex,         \* the execute_data_extraction call of an LLMDataExtractor
    it,         \* the process_item tasks of its current batch
    parse,      \* one LLM response on its way through an extraction method
    orch,       \* the orchestrator call that scrapes and then extracts
    ft,         \* one fetch of a page by the direct or the browser backend
    pl,         \* one pipeline run: the URLs on their way from the search
                \* phase to the scrape phase
    sem,        \* one scrape_with_direct_requests call: its semaphore and
                \* its scrape_with_semaphore tasks
    se,         \* one extract_business_urls_from_searches call
    gu,         \* one call of a search URL builder
    nz          \* one get_llm_friendly_content call of the HTML normalizer

jobVars == <<jobs, tasks, resp>>

storeVars == <<store, sv, twice, order>>

\* The state of the runs that are modelled one call at a time
pipeVars == <<pl, sem, se, gu, nz>>

scrapeVars == <<ft, pipeVars>>

extVars == <<ex, it, parse, orch, scrapeVars>>

vars ==
    <<jobs, tasks, resp, store, sv, twice, order, ex, it, parse, orch, ft, pl,
      sem, se, gu, nz>>

----------------------------------------------------------------------------
(* Bounds of the model *)

MaxJobs == 1        \* jobs created through POST /jobs
MaxItems == 1       \* length of a job's "urls" / "terms" parameter list
MaxRecords == 2     \* documents in the businesses collection
MaxInput == 3       \* items in an extractor's input_data_list
max_batch_size == 2 \* ExtractionConfig.max_batch_size (5 by default)
MaxArray == 2       \* elements of a JSON array in an LLM response
MaxUrls == 3        \* URLs handed to an orchestrator
MaxResults == 2     \* searches of one command-line pipeline run
MaxConcurrent == 2  \* ScrapingConfiguration.max_concurrent_requests (5 by default)
MaxTerm == 3        \* characters of a search term
MaxTerms == 2       \* search terms of one call
MaxBlocks == 4      \* application/json script blocks of a page

----------------------------------------------------------------------------
(* backend/app/models/job.py *)

PENDING == "pending"
RUNNING == "running"
COMPLETED == "completed"
FAILED == "failed"

JobStatus == {PENDING, RUNNING, COMPLETED, FAILED}

WEBSITE == "website"
SEARCH == "search"
PIPELINE == "pipeline"

JobType == {WEBSITE, SEARCH, PIPELINE}

Null == "null"      \* Python None / a key that is not in the document
NoKey == -1         \* a parameters dict without that key

\* CreateJobRequest.parameters is a free dict; the runner reads only the
\* length of parameters["urls"] and parameters["terms"] and, for a SEARCH
\* job, whether the key is there.  A key the runner never reads for the
\* request is left out: "terms" of a WEBSITE job, "urls" of a PIPELINE job,
\* "urls" of a SEARCH job that has "terms".  WEBSITE and PIPELINE jobs read
\* their list with .get(key, []), so a missing key is the empty list.
Lengths == 0..MaxItems

CreateJobRequest ==
    {[type |-> WEBSITE, parameters |-> [urls |-> u, terms |-> NoKey]] : u \in Lengths}
    \cup {[type |-> SEARCH, parameters |-> [urls |-> NoKey, terms |-> t]] : t \in Lengths}
    \cup {[type |-> SEARCH, parameters |-> [urls |-> u, terms |-> NoKey]] : u \in Lengths \cup {NoKey}}
    \cup {[type |-> PIPELINE, parameters |-> [urls |-> NoKey, terms |-> t]] : t \in Lengths}

\* parameters.get(key, []) followed by len()
GetLen(n) == IF n = NoKey THEN 0 ELSE n

----------------------------------------------------------------------------
(* Store updates on one job document *)

\* create_job: the inserted document
NewJob(req) ==
    [type |-> req.type,
     status |-> PENDING,
     parameters |-> req.parameters,
     created_at |-> "ts",
     started_at |-> Null,
     completed_at |-> Null,
     current_step |-> 0,
     total_steps |-> 0,
     progress_message |-> Null,
     logs |-> <<>>,
     progress |-> Null,
     result |-> Null,
     error |-> Null]

\* run_scraping_job, first update_one: filter is the _id alone
StartUpdate(doc) ==
    [doc EXCEPT !.status = RUNNING,
                !.started_at = "ts",
                !.current_step = 0,
                !.total_steps = 1,
                !.progress_message = "Initializing..."]

\* Variant: the log entry replaces the log ($set of logs to the one entry)
ProgressUpdateSetLogs(doc, step, total, message) ==
    [doc EXCEPT !.current_step = step,
                !.total_steps = total,
                !.progress_message = message,
                !.logs = <<[message |-> message, step |-> step]>>]

\* update_job_progress: $set of the three progress fields, $push of a log entry
ProgressUpdate(doc, step, total, message) ==
    [doc EXCEPT !.current_step = step,
                !.total_steps = total,
                !.progress_message = message,
                !.logs = Append(@, [message |-> message, step |-> step])]

\* Variant: the local `result` is stored as it is
ResultAsIs(result) == result

\* result or {"message": "Job completed successfully"}
ResultOrDefault(result) ==
    IF result = Null THEN "default_message" ELSE result

\* run_scraping_job, update at the end of the try block
CompleteUpdate(doc, result) ==
    [doc EXCEPT !.status = COMPLETED,
                !.completed_at = "ts",
                !.result = ResultOrDefault(result)]

\* Variants of the except block's update with one field of the $set missing
FailUpdateWithoutStatus(doc, e) ==
    [doc EXCEPT !.completed_at = "ts", !.error = e]

FailUpdateWithoutCompletedAt(doc, e) ==
    [doc EXCEPT !.status = FAILED, !.error = e]

\* run_scraping_job, update of the except block
FailUpdate(doc, e) ==
    [doc EXCEPT !.status = FAILED,
                !.completed_at = "ts",
                !.error = e]

\* Variant of the filter that matches on the _id alone
CancelFilterIdOnly(doc) == TRUE

\* cancel_job: the filter {"_id": ..., "status": PENDING} of update_one
CancelFilter(doc) == doc.status = PENDING

\* cancel_job: the $set of update_one
CancelUpdate(doc) ==
    [doc EXCEPT !.status = FAILED, !.error = "Cancelled by user"]

----------------------------------------------------------------------------
(* utils/mongodb_client.py: business documents.                            *)
(* A document or an incoming business dict is a function from the keys it  *)
(* has to their values.  Null stands for a present but falsy scalar (None, *)
(* "", 0), {} for a falsy mapping; phone stands for the scalar fields that *)
(* are not part of the identity (phone, category, rating).                 *)

DictFields == {"hours", "social_media"}

\* Python truth value of the value v of key k
Truthy(k, v) == IF k \in DictFields THEN v # {} ELSE v # Null

\* d.get(k) is truthy
Has(d, k) == k \in DOMAIN d /\ Truthy(k, d[k])

Absent == "absent"      \* marks a key that Business leaves out

\* A business dict with the given values; a key whose value is Absent is
\* not in the dict.
Business(name, address, website, phone) ==
    LET full == [name |-> name, address |-> address,
                 website |-> website, phone |-> phone]
    IN  [k \in {x \in DOMAIN full : full[x] # Absent} |-> full[k]]

NoBusiness == [k \in {} |-> Null]

\* lines 41-42: business["updated_at"] = utcnow(); business["source_type"] = ...
AddMetadata(business, source_type) ==
    [k \in DOMAIN business \cup {"updated_at", "source_type"} |->
        IF k = "updated_at" THEN "ts"
        ELSE IF k = "source_type" THEN source_type
        ELSE business[k]]

\* line 66: business["created_at"] = utcnow()
AddCreatedAt(business) ==
    [k \in DOMAIN business \cup {"created_at"} |->
        IF k = "created_at" THEN "ts" ELSE business[k]]

\* Variant: {**new, **old}, the stored value of a common key is kept
DictUpdateOldWins(old, new) ==
    {kv \in new : \A ov \in old : ov[1] # kv[1]} \cup old

\* {**old, **new} on mappings given as sets of <<key, value>> pairs
DictUpdate(old, new) ==
    {kv \in old : \A nv \in new : nv[1] # kv[1]} \cup new

\* Variant of the merge whose first test reads `existing.get(key)` for
\* `not existing.get(key)`: it takes a new value only for a key the stored
\* document already has
MergeOverwriteOnly(existing, new) ==
    LET Taken == {k \in DOMAIN new :
                     /\ Truthy(k, new[k])
                     /\ Has(existing, k) \/ k \in {"updated_at", "description"}}
    IN  [k \in DOMAIN existing \cup Taken |->
            IF k \in Taken THEN new[k] ELSE existing[k]]

\* _merge_business_data(existing, new)
MergeBusinessData(existing, new) ==
    LET Taken == {k \in DOMAIN new :
                     /\ Truthy(k, new[k])
                     /\ ~Has(existing, k) \/ k \in {"updated_at", "description"}}
        Joined == {k \in DOMAIN new \ Taken :
                     k \in {"hours", "social_media"} /\ Truthy(k, new[k])}
    IN  [k \in DOMAIN existing \cup Taken |->
            IF k \in Taken THEN new[k]
            ELSE IF k \in Joined THEN DictUpdate(existing[k], new[k])
            ELSE existing[k]]

\* update_one(filter, {"$set": merged}) on the document as it is stored now
UpdateSet(doc, merged) ==
    [k \in DOMAIN doc \cup DOMAIN merged |->
        IF k \in DOMAIN merged THEN merged[k] ELSE doc[k]]

FirstIndex(S) == IF S = {} THEN 0 ELSE CHOOSE i \in S : \A j \in S : i <= j

\* collection.find_one(query): the first document that has every key of the
\* query with the query's value, 0 for None
FindOne(coll, query) ==
    FirstIndex({i \in DOMAIN coll :
                   \A k \in DOMAIN query :
                       k \in DOMAIN coll[i] /\ coll[i][k] = query[k]})

HasNameAddress(b) == Has(b, "name") /\ Has(b, "address")

HasWebsite(b) == Has(b, "website")

\* Variant of the lookup that goes on to the website when no document has
\* the (name, address) pair
FindExistingOrWebsite(coll, b) ==
    LET byPair == IF HasNameAddress(b)
                  THEN FindOne(coll, [name |-> b.name, address |-> b.address])
                  ELSE 0
    IN  IF byPair # 0 THEN byPair
        ELSE IF HasWebsite(b) THEN FindOne(coll, [website |-> b.website])
        ELSE 0

\* lines 44-54: the duplicate check of save_businesses
FindExisting(coll, b) ==
    IF HasNameAddress(b)
    THEN FindOne(coll, [name |-> b.name, address |-> b.address])
    ELSE IF HasWebsite(b)
    THEN FindOne(coll, [website |-> b.website])
    ELSE 0

\* Number of documents with the (name, address) pair of b
CountIdentity(coll, b) ==
    Cardinality({i \in DOMAIN coll :
                    /\ "name" \in DOMAIN coll[i]
                    /\ "address" \in DOMAIN coll[i]
                    /\ coll[i].name = b.name
                    /\ coll[i].address = b.address})

\* The callers of save_businesses: two concurrent background tasks
Savers == {1, 2}

\* Locals of a save_businesses call; saved and updated are also what the
\* last call returned
IdleSaver ==
    [pc |-> "idle",
     n |-> 0,                   \* len(businesses)
     todo |-> <<>>,             \* the businesses the for loop has not reached
     business |-> NoBusiness,   \* the loop variable
     existing |-> 0,            \* _id of `existing`, 0 for None
     snapshot |-> NoBusiness,   \* the `existing` dict as find_one returned it
     saved |-> 0,               \* saved_count
     updated |-> 0]             \* updated_count

NoTwice == [stage |-> 0, ent |-> NoBusiness]

NoOrder == [stage |-> 0, a |-> NoBusiness, b |-> NoBusiness, alt |-> <<>>]

----------------------------------------------------------------------------
(* scrapers/llm_data_extraction.py: LLM responses and extraction results    *)

max_retry_attempts == 2     \* ExtractionConfig.max_retry_attempts

SchemaTypes == {"website", "search"}

ExtractionMethods == {"direct", "crawl4ai"}

\* The method process_item falls back to
Other(method) == IF method = "direct" THEN "crawl4ai" ELSE "direct"

\* The key of the list of a schema: `entities` or `urls`
ListKey(schema_type) == IF schema_type = "website" THEN "entities" ELSE "urls"

\* A JSON object of an LLM response: whether it has the keys "metadata" and
\* the list key, whether the schema class validates it, and what it says
Object(structure, valid, success, n) ==
    [kind |-> "object", structure |-> structure, valid |-> valid,
     success |-> success, n |-> n]

\* a schema-valid object: result.success and the length of its list
Good(success, n) == Object(TRUE, TRUE, success, n)

\* both keys, but not valid (a required field missing, a wrong type)
Malformed == Object(TRUE, FALSE, FALSE, 0)

\* an object without the keys
Junk == Object(FALSE, FALSE, FALSE, 0)

\* JSON that is neither an object nor an array
ScalarJson == [kind |-> "scalar"]

\* text that json.loads rejects
Text == [kind |-> "text"]

Array(elems) == [kind |-> "array", elems |-> elems]

\* The awaited call raises instead of answering
Raises == [kind |-> "raise"]

\* crawler.arun answers with success false or without extracted content
Failure == [kind |-> "failure"]

Elements ==
    {Good(TRUE, 1), Good(FALSE, 0), Good(FALSE, 1), Malformed, Junk, ScalarJson}

\* What an LLM can answer
Contents ==
    {Text} \cup Elements
    \cup {Array(elems) : elems \in UNION {[1..n -> Elements] : n \in 0..MaxArray}}

\* The answers the batch model draws from
LLMResponses ==
    {Text, Good(TRUE, 1), Good(FALSE, 0), Good(FALSE, 1), Malformed,
     Array(<<>>), Array(<<Good(TRUE, 1)>>), Array(<<Junk, Good(TRUE, 1)>>)}

\* A BusinessEntity as model_dump gives it: every key, None for what the page
\* did not give
LLMEntity == Business("A", "X", Null, Null)

LLMUrl == [title |-> "llm", reason |-> "llm", url |-> "llm"]

\* _create_standardized_error_response(error_reason, source_url)
ErrorResponse(schema_type, error_reason, source_url) ==
    IF schema_type = "website"
    THEN [metadata |->
             [source |-> [name |-> "ExtractionError", url |-> source_url,
                          type |-> "Error", summary |-> error_reason],
              result |-> [success |-> FALSE, entities_found |-> 0,
                          error |-> "ExtractionError",
                          error_details |-> error_reason],
              relevant_urls |-> <<>>],
          entities |-> <<>>]
    ELSE [metadata |->
             [context |-> [query |-> "unknown", url |-> source_url,
                           results |-> 0],
              result |-> [success |-> FALSE, urls_found |-> 0,
                          error |-> "ExtractionError",
                          error_details |-> error_reason]],
          urls |-> <<>>]

\* validation_schema(**object).model_dump() of a schema-valid object: every
\* key of the schema, the values as the LLM gave them
ModelDump(schema_type, object) ==
    IF schema_type = "website"
    THEN [metadata |->
             [source |-> [name |-> "llm", url |-> "llm",
                          type |-> Null, summary |-> "llm"],
              result |-> [success |-> object.success,
                          entities_found |-> object.n,
                          error |-> Null, error_details |-> Null],
              relevant_urls |-> <<>>],
          entities |-> [i \in 1..object.n |-> LLMEntity]]
    ELSE [metadata |->
             [context |-> [query |-> "llm", url |-> "llm", results |-> object.n],
              result |-> [success |-> object.success,
                          urls_found |-> object.n,
                          error |-> Null, error_details |-> Null]],
          urls |-> [i \in 1..object.n |-> LLMUrl]]

\* _is_valid_schema_structure(data)
IsValidSchemaStructure(data) == data.structure

\* _extract_via_direct_api: what it returns when litellm.acompletion raises
\* (Raises) or answers with the given content.  A parsed array or scalar
\* makes validation_schema(**parsed_response) raise TypeError, which only the
\* outer except catches.
ExtractViaDirectApi(schema_type, outcome, source_url) ==
    IF outcome.kind = "raise"
    THEN ErrorResponse(schema_type, "Direct API request failed", source_url)
    ELSE IF outcome.kind = "text"
    THEN ErrorResponse(schema_type, "Response validation failed", source_url)
    ELSE IF outcome.kind # "object"
    THEN ErrorResponse(schema_type, "Direct API request failed", source_url)
    ELSE IF outcome.valid
    THEN ModelDump(schema_type, outcome)
    ELSE ErrorResponse(schema_type, "Response validation failed", source_url)

\* validation_schema(**parsed_content) at the end of
\* _process_extraction_result
ValidateContent(schema_type, parsed_content, source_url) ==
    IF parsed_content.valid
    THEN ModelDump(schema_type, parsed_content)
    ELSE ErrorResponse(schema_type, "Content processing failed", source_url)

\* _process_extraction_result raises TypeError: the content, or the first
\* element of the array, is no mapping
ProcessRaises(content) ==
    \/ content.kind = "scalar"
    \/ /\ content.kind = "array"
       /\ content.elems # <<>>
       /\ content.elems[1].kind # "object"

\* _process_extraction_result(extracted_content, source_url), when it
\* returns
ProcessExtractionResult(schema_type, content, source_url) ==
    IF content.kind = "text"
    THEN ErrorResponse(schema_type, "Content processing failed", source_url)
    ELSE IF content.kind = "array"
    THEN IF content.elems = <<>>
         THEN ErrorResponse(schema_type, "Empty array received from LLM",
                            source_url)
         ELSE LET first_item == content.elems[1]
              IN  IF IsValidSchemaStructure(first_item)
                  THEN ValidateContent(schema_type, first_item, source_url)
                  ELSE ErrorResponse(schema_type,
                           "Invalid array structure in LLM response", source_url)
    ELSE ValidateContent(schema_type, content, source_url)

\* self._calculate_retry_delay(attempt_number): LLMDataExtractor defines no
\* such method, the call raises AttributeError
CalculateRetryDelay(attempt_number) == "AttributeError"

\* One pass of the retry loop of _extract_via_crawl4ai: crawler.arun raises
\* (Raises), reports a failure (Failure) or succeeds with the given
\* extracted content.  Every pass ends the loop: an exception of the pass,
\* the AttributeError of the retry branch included, is caught by
\* `except Exception` and returned as an error response.
CrawlAttempt(schema_type, outcome, source_url, attempt_number) ==
    IF outcome.kind = "raise"
    THEN ErrorResponse(schema_type, "Unexpected extraction error", source_url)
    ELSE IF outcome.kind = "failure"
    THEN IF /\ attempt_number < max_retry_attempts
            /\ CalculateRetryDelay(attempt_number) = "AttributeError"
         THEN ErrorResponse(schema_type, "Unexpected extraction error",
                            source_url)
         ELSE ErrorResponse(schema_type, "All extraction attempts failed",
                            source_url)
    ELSE IF ProcessRaises(outcome)
    THEN ErrorResponse(schema_type, "Unexpected extraction error", source_url)
    ELSE ProcessExtractionResult(schema_type, outcome, source_url)

\* No result yet
NoResult == [none |-> TRUE]

\* Variant of _is_successful that reads every result as a success
IsSuccessfulAlways(result) == TRUE

\* _is_successful(result)
IsSuccessful(result) == result.metadata.result.success

\* success is false in the result
Unsuccessful(result) == result # NoResult /\ ~result.metadata.result.success

\* An input data item {url: content}; `fetch` tells whether the value is page
\* content or an error-shaped fetch result
Item(url, fetch) == [url |-> url, fetch |-> fetch]

NoExtraction ==
    [pc |-> "new",
     schema_type |-> "website",
     method |-> "direct",
     input |-> <<>>,        \* input_data_list
     start |-> 0,           \* batch_start_index
     results |-> <<>>,      \* extraction_results
     origin |-> <<>>,       \* for each result, the index of the item it is of
     own |-> <<>>]          \* for each result, what the item's own
                            \* process_item returned, NoResult if it did not

NoParse == [stage |-> 0, method |-> "direct", schema_type |-> "website",
            content |-> Text, result |-> NoResult]

----------------------------------------------------------------------------
(* scrapers/websites_scraping.py, scrapers/searches_scraping.py: what a     *)
(* fetch gives and the scraped data item that is made of it.  The `fetch`   *)
(* of an item is "content" for the processed content of a page fetched with *)
(* status 200, "error" for an error-shaped value (error_type               *)
(* 'ScrapingError', or success False), "error_page" for the processed       *)
(* content of a page that came with another status, and "content_error_type" *)
(* for the processed content of a page whose own text holds the word         *)
(* error_type.                                                               *)

min_html_length == 20000

\* What a fetch answers: the status code (0 when there was no response), the
\* length of the HTML, and whether get_llm_friendly_content returns on it
\* (it raises otherwise)
Fetched(status_code, length, clean) ==
    [status_code |-> status_code, length |-> length, clean |-> clean,
     error_type |-> FALSE]      \* the text of the page holds 'error_type'

\* The same answer for a page whose text holds the word error_type
Mentioning(r) == [r EXCEPT !.error_type = TRUE]

FetchResults ==
    {Fetched(200, 25000, TRUE), Fetched(200, 25000, FALSE),
     Fetched(200, 500, TRUE), Fetched(200, 0, TRUE),
     Fetched(404, 25000, TRUE), Fetched(0, 0, TRUE),
     Mentioning(Fetched(200, 25000, TRUE))}

\* {url: cleaned_data}: the processed content of a page
Content(url, r) ==
    Item(url, IF r.error_type THEN "content_error_type" ELSE "content")

\* WebsitesScraping._scrape_single_url_direct(url)
ScrapeSingleUrlDirect(url, r) ==
    IF r.length = 0
    THEN Item(url, "error")
    ELSE IF r.status_code = 200 /\ r.length >= min_html_length
    THEN IF r.clean THEN Content(url, r) ELSE Item(url, "error")
    ELSE Item(url, "error")

\* WebsitesScraping._process_crawl4ai_result(result); `success` is
\* result.success, the status code is not read
ProcessCrawl4aiResult(url, success, r) ==
    IF success /\ r.length >= min_html_length
    THEN IF r.clean
         THEN IF r.status_code = 200 THEN Content(url, r)
              ELSE Item(url, "error_page")
         ELSE Item(url, "error")
    ELSE Item(url, "error")

\* SearchResultsScraper.scrape_multiple_search_results: the result of one
\* (raw_html, status_code) of a batch; the search orchestrator never looks
\* for error_type in the content
SearchScrapeResult(url, r) ==
    IF r.length = 0 \/ r.status_code # 200
    THEN Item(url, "error")
    ELSE IF r.clean THEN Item(url, "content") ELSE Item(url, "error")

\* Variant of the filter that reads the error_type key of an error response
IsValidScrapedByKey(data) == data.fetch # "error"

\* not any('error_type' in str(v) for v in data.values()): the word is looked
\* for in the text of the whole value
IsValidScraped(data) == data.fetch \notin {"error", "content_error_type"}

\* valid_scraped_data of scrape_and_extract_data
ValidScrapedData(scraped_data) == SelectSeq(scraped_data, IsValidScraped)

\* process_urls has not returned
NoSummary == [none |-> TRUE]

NoOrch ==
    [pc |-> "idle",
     kind |-> "website",        \* the orchestrator: "website" or "search"
     scraped |-> <<>>,          \* scraped_data / scraped_search_data
     out |-> <<>>,              \* what the orchestrator returned
     fetched |-> <<>>,          \* process_urls: what the fetches answered
     entities_found |-> 0,      \* process_urls: len(successful_results)
     save_raised |-> FALSE,     \* process_urls: save_businesses raised
     summary |-> NoSummary]     \* process_urls: the dict it returned

----------------------------------------------------------------------------
(* utils/helpers.py: the two fetchers.  A page is what the server answers:   *)
(* its HTTP status, the length of its HTML and whether the HTML holds one   *)
(* of the blocking terms.                                                    *)

browser_min_html_length == 30000

Page(status, length, blocking) ==
    [status |-> status, length |-> length, blocking |-> blocking]

Pages ==
    {Page(status, length, blocking) :
        status \in {200, 404}, length \in {0, 500, 25000, 35000},
        blocking \in BOOLEAN}

Backends == {"direct", "browser"}

\* A status that is an HTTP status code
Code(n) == [code |-> n]

\* A status that is one of the strings 'HTML_TOO_SHORT', 'CAPTCHA_DETECTED',
\* 'UNEXPECTED_ERROR'
Sentinel(name) == [sentinel |-> name]

\* The status f'Error: {str(e)}' of request_html
ErrorText == [error |-> "Error: str(e)"]

NoHtml == -1        \* None, or the local raw_html before it is assigned

\* return raw_html, status_code
Returned(raw_html, status_code) ==
    [kind |-> "return", raw_html |-> raw_html, status_code |-> status_code]

NoFetch ==
    [pc |-> "idle",
     backend |-> "direct",
     page |-> Page(200, 0, FALSE),
     raw_html |-> NoHtml,       \* the local raw_html
     failed |-> FALSE,          \* a navigation or transport step has raised
     result |-> NoResult]       \* what the fetch returned, Raises if it raised

\* The URLs a search phase can find
Urls == {"a", "b"}

\* Python lists of at most n elements of S
ListsOf(S, n) == UNION {[1..k -> S] : k \in 0..n}

\* One pipeline run before its search phase
NoPipeline ==
    [pc |-> "idle",
     path |-> "job",            \* "job": run_scraping_job, "cli": run_pipeline
     search_result |-> <<>>,    \* job: search_result["urls"], <<>> if falsy
     search_results |-> <<>>,   \* cli: the urls list of every search result
     file |-> <<>>,             \* cli: input/temp_website_urls.json
     scraping |-> FALSE,        \* the scrape phase was started
     handed |-> <<>>]           \* the urls argument of the scrape phase

InitPipe == pl = NoPipeline

\* A scrape_with_semaphore(url) task before it has the semaphore
NewScrapeTask ==
    [pc |-> "acquire",
     fetches |-> 0,             \* request_html calls made for the URL
     result |-> NoResult]       \* what the task returned

\* No scrape_with_direct_requests call yet
NoScrape ==
    [pc |-> "idle",
     max_concurrent_requests |-> 1,
     delay |-> FALSE,           \* request_delay_seconds > 0
     value |-> 0,               \* the semaphore's counter
     task |-> <<>>,             \* one task per URL of self.urls
     out |-> <<>>]              \* the list the call returned

\* No extract_business_urls_from_searches call yet
NoSearchExtraction ==
    [pc |-> "idle",
     search_urls |-> <<>>,      \* the argument; <<>> is None or []
     search_terms |-> <<>>,     \* the argument; <<>> is None or []
     urls |-> <<>>,             \* the local search_urls once it is final
     fetched |-> FALSE,         \* scrape_multiple_search_results was called
     extracted |-> FALSE]       \* execute_data_extraction was called

\* No call of a URL builder yet
NoBuild ==
    [pc |-> "idle",
     builder |-> "scraper",     \* "scraper": SearchResultsScraper,
                                \* "advanced": AdvancedGoogleSearchGenerator
     search_term |-> <<>>,
     num_results |-> 0,
     pagination_offset |-> 0,
     result |-> NoResult]

InitSearch == se = NoSearchExtraction /\ gu = NoBuild

\* No get_llm_friendly_content call yet
NoNormalize ==
    [pc |-> "idle",
     scripts |-> <<>>,          \* the application/json blocks of the page
     content |-> "none",        \* which text 'markdown/cleaned_html' holds
     json_scripts |-> <<>>]     \* the 'json_scripts' of the returned dict

InitScrape ==
    ft = NoFetch /\ InitPipe /\ sem = NoScrape /\ InitSearch /\ nz = NoNormalize

----------------------------------------------------------------------------
(* State after start-up: both collections empty, nothing enqueued *)

NoResp == [id |-> 0, code |-> 0]

InitJobs ==
    /\ jobs = <<>>
    /\ tasks = <<>>
    /\ resp = NoResp
    /\ store = <<>>
    /\ sv = [p \in Savers |-> IdleSaver]
    /\ twice = NoTwice
    /\ order = NoOrder
    /\ ex = NoExtraction
    /\ it = <<>>
    /\ parse = NoParse
    /\ orch = NoOrch
    /\ InitScrape

\* A task as enqueued by background_tasks.add_task
NewTask ==
    [pc |-> "queued",           \* position in run_scraping_job
     result |-> Null,           \* the local `result`
     search_result |-> Null,    \* the local `search_result` (PIPELINE)
     exc |-> Null,              \* str(e) of the exception the runner caught
     worked |-> FALSE]          \* an orchestrator call was started

----------------------------------------------------------------------------
(* POST /jobs *)

create_job(req) ==
    /\ Len(jobs) < MaxJobs
    /\ jobs' = Append(jobs, NewJob(req))
    /\ tasks' = Append(tasks, NewTask)
    /\ UNCHANGED <<resp, storeVars, extVars>>

(* DELETE /jobs/{job_id}, job_id a valid ObjectId (an invalid one is        *)
(* answered 400 before the store is touched).  The update_one is the only  *)
(* await of the handler; its answer follows from modified_count.  One      *)
(* DELETE request is served at a time.                                     *)

cancel_job(id) ==
    /\ resp = NoResp
    /\ IF id \in DOMAIN jobs /\ CancelFilter(jobs[id])
       THEN /\ jobs' = [jobs EXCEPT ![id] = CancelUpdate(jobs[id])]
            /\ resp' = [id |-> id, code |-> 200]
       ELSE /\ jobs' = jobs
            /\ resp' = [id |-> id, code |-> 404]
    /\ UNCHANGED <<tasks, storeVars, extVars>>

\* The HTTP layer hands the response of cancel_job to the client
Respond ==
    /\ resp # NoResp
    /\ resp' = NoResp
    /\ UNCHANGED <<jobs, tasks, storeVars, extVars>>

----------------------------------------------------------------------------
(* run_scraping_job(job_id), one action per await *)

ImportErrorMessage == "Scraper modules not found"
OrchestratorError == "orchestrator error"

\* What the awaited orchestrators can hand back to the runner.
\* process_website_urls: WebsitesScraping.__init__ raises ValueError on an
\* empty URL list; otherwise process_urls returns its summary dict or an
\* exception of the scraping stack propagates.
WebsiteOutcomes(n) == IF n = 0 THEN {"raise"} ELSE {"summary", "raise"}

\* process_search_terms / process_search_urls: a falsy value (None, {}), a
\* dict without "urls", a dict with a non-empty "urls" list, or an exception.
SearchOutcomes == {Null, "search_nourls", "search_urls", "raise"}

\* search_result and search_result.get("urls")
HasUrls(search_result) == search_result = "search_urls"

Goto(j, pc) == tasks' = [tasks EXCEPT ![j].pc = pc]

Raise(j, e) == tasks' = [tasks EXCEPT ![j].pc = "except", ![j].exc = e]

\* lines 43-52: the job is marked Running whatever its status is
RunStart(j) ==
    /\ tasks[j].pc = "queued"
    /\ jobs' = [jobs EXCEPT ![j] = StartUpdate(jobs[j])]
    /\ Goto(j, "find")
    /\ UNCHANGED <<resp, storeVars, extVars>>

\* The first await of each branch of the dispatch on job["type"]
Dispatch(job) ==
    IF job.type = WEBSITE THEN "website_progress"
    ELSE IF job.type = SEARCH
         THEN IF job.parameters.terms # NoKey THEN "terms_progress"
              ELSE IF job.parameters.urls # NoKey THEN "urls_progress"
              ELSE "complete"
    ELSE "pipeline_progress0"

\* lines 55-71: find_one, the import of the scraper modules, the dispatch.
\* Whether the import succeeds depends on the installed scrapers package
\* (scrapers/__init__.py and job_runner.py import process_search_terms and
\* process_search_urls from scrapers.searches_scraping).
RunFind(j) ==
    /\ tasks[j].pc = "find"
    /\ \E imported \in BOOLEAN :
          IF j \notin DOMAIN jobs
          THEN Goto(j, "done")
          ELSE IF ~imported
          THEN Raise(j, ImportErrorMessage)
          ELSE Goto(j, Dispatch(jobs[j]))
    /\ UNCHANGED <<jobs, resp, storeVars, extVars>>

\* line 75
RunWebsiteProgress(j) ==
    /\ tasks[j].pc = "website_progress"
    /\ jobs' = [jobs EXCEPT ![j] =
          ProgressUpdate(jobs[j], 0, GetLen(jobs[j].parameters.urls),
                         "Processing website URLs...")]
    /\ Goto(j, "website_call")
    /\ UNCHANGED <<resp, storeVars, extVars>>

\* line 77; process_urls writes the job's `progress` field before it returns
RunWebsiteCall(j) ==
    /\ tasks[j].pc = "website_call"
    /\ \E out \in WebsiteOutcomes(GetLen(jobs[j].parameters.urls)) :
          IF out = "raise"
          THEN /\ tasks' = [tasks EXCEPT ![j].pc = "except",
                                         ![j].exc = OrchestratorError,
                                         ![j].worked = TRUE]
               /\ jobs' = jobs
          ELSE /\ tasks' = [tasks EXCEPT ![j].pc = "complete",
                                         ![j].result = out,
                                         ![j].worked = TRUE]
               /\ jobs' = [jobs EXCEPT ![j].progress = "set"]
    /\ UNCHANGED <<resp, storeVars, extVars>>

\* line 84
RunTermsProgress(j) ==
    /\ tasks[j].pc = "terms_progress"
    /\ jobs' = [jobs EXCEPT ![j] =
          ProgressUpdate(jobs[j], 0, jobs[j].parameters.terms,
                         "Processing search terms...")]
    /\ Goto(j, "terms_call")
    /\ UNCHANGED <<resp, storeVars, extVars>>

\* line 90
RunUrlsProgress(j) ==
    /\ tasks[j].pc = "urls_progress"
    /\ jobs' = [jobs EXCEPT ![j] =
          ProgressUpdate(jobs[j], 0, jobs[j].parameters.urls,
                         "Processing search URLs...")]
    /\ Goto(j, "urls_call")
    /\ UNCHANGED <<resp, storeVars, extVars>>

\* lines 86 and 92: result = await process_search_terms / process_search_urls
RunSearchCall(j) ==
    /\ tasks[j].pc \in {"terms_call", "urls_call"}
    /\ \E out \in SearchOutcomes :
          IF out = "raise"
          THEN tasks' = [tasks EXCEPT ![j].pc = "except",
                                      ![j].exc = OrchestratorError,
                                      ![j].worked = TRUE]
          ELSE tasks' = [tasks EXCEPT ![j].pc = "complete",
                                      ![j].result = out,
                                      ![j].worked = TRUE]
    /\ UNCHANGED <<jobs, resp, storeVars, extVars>>

\* line 97
RunPipelineProgress0(j) ==
    /\ tasks[j].pc = "pipeline_progress0"
    /\ jobs' = [jobs EXCEPT ![j] =
          ProgressUpdate(jobs[j], 0, 2, "Starting pipeline: Search phase...")]
    /\ Goto(j, "pipeline_search")
    /\ UNCHANGED <<resp, storeVars, extVars>>

\* line 100
RunPipelineSearch(j) ==
    /\ tasks[j].pc = "pipeline_search"
    /\ \E out \in SearchOutcomes :
          IF out = "raise"
          THEN tasks' = [tasks EXCEPT ![j].pc = "except",
                                      ![j].exc = OrchestratorError,
                                      ![j].worked = TRUE]
          ELSE tasks' = [tasks EXCEPT ![j].pc = "pipeline_progress1",
                                      ![j].search_result = out,
                                      ![j].worked = TRUE]
    /\ UNCHANGED <<jobs, resp, storeVars, extVars>>

\* lines 101-103
RunPipelineProgress1(j) ==
    /\ tasks[j].pc = "pipeline_progress1"
    /\ jobs' = [jobs EXCEPT ![j] =
          ProgressUpdate(jobs[j], 1, 2,
                         "Search complete. Starting scraping phase...")]
    /\ Goto(j, IF HasUrls(tasks[j].search_result)
               THEN "pipeline_scrape" ELSE "complete")
    /\ UNCHANGED <<resp, storeVars, extVars>>

\* line 105: the URL list of the search phase is never empty here
RunPipelineScrape(j) ==
    /\ tasks[j].pc = "pipeline_scrape"
    /\ \E out \in {"summary", "raise"} :
          IF out = "raise"
          THEN /\ Raise(j, OrchestratorError)
               /\ jobs' = jobs
          ELSE /\ tasks' = [tasks EXCEPT ![j].pc = "pipeline_progress2",
                                         ![j].result = out]
               /\ jobs' = [jobs EXCEPT ![j].progress = "set"]
    /\ UNCHANGED <<resp, storeVars, extVars>>

\* line 106
RunPipelineProgress2(j) ==
    /\ tasks[j].pc = "pipeline_progress2"
    /\ jobs' = [jobs EXCEPT ![j] =
          ProgressUpdate(jobs[j], 2, 2, "Pipeline complete!")]
    /\ Goto(j, "complete")
    /\ UNCHANGED <<resp, storeVars, extVars>>

\* lines 109-118
RunComplete(j) ==
    /\ tasks[j].pc = "complete"
    /\ jobs' = [jobs EXCEPT ![j] = CompleteUpdate(jobs[j], tasks[j].result)]
    /\ Goto(j, "done")
    /\ UNCHANGED <<resp, storeVars, extVars>>

\* lines 120-131: except Exception
RunExcept(j) ==
    /\ tasks[j].pc = "except"
    /\ jobs' = [jobs EXCEPT ![j] = FailUpdate(jobs[j], tasks[j].exc)]
    /\ Goto(j, "done")
    /\ UNCHANGED <<resp, storeVars, extVars>>

run_scraping_job(j) ==
    \/ RunStart(j)
    \/ RunFind(j)
    \/ RunWebsiteProgress(j)
    \/ RunWebsiteCall(j)
    \/ RunTermsProgress(j)
    \/ RunUrlsProgress(j)
    \/ RunSearchCall(j)
    \/ RunPipelineProgress0(j)
    \/ RunPipelineSearch(j)
    \/ RunPipelineProgress1(j)
    \/ RunPipelineScrape(j)
    \/ RunPipelineProgress2(j)
    \/ RunComplete(j)
    \/ RunExcept(j)

JobIds == 1..MaxJobs

NextJobs ==
    \/ \E req \in CreateJobRequest : create_job(req)
    \/ \E id \in JobIds : cancel_job(id)
    \/ Respond
    \/ \E j \in DOMAIN tasks : RunStart(j)
    \/ \E j \in DOMAIN tasks : RunFind(j)
    \/ \E j \in DOMAIN tasks : RunWebsiteProgress(j)
    \/ \E j \in DOMAIN tasks : RunWebsiteCall(j)
    \/ \E j \in DOMAIN tasks : RunTermsProgress(j)
    \/ \E j \in DOMAIN tasks : RunUrlsProgress(j)
    \/ \E j \in DOMAIN tasks : RunSearchCall(j)
    \/ \E j \in DOMAIN tasks : RunPipelineProgress0(j)
    \/ \E j \in DOMAIN tasks : RunPipelineSearch(j)
    \/ \E j \in DOMAIN tasks : RunPipelineProgress1(j)
    \/ \E j \in DOMAIN tasks : RunPipelineScrape(j)
    \/ \E j \in DOMAIN tasks : RunPipelineProgress2(j)
    \/ \E j \in DOMAIN tasks : RunComplete(j)
    \/ \E j \in DOMAIN tasks : RunExcept(j)

SpecJobs == InitJobs /\ [][NextJobs]_vars

\* The event loop keeps running the enqueued tasks, and every call a task
\* awaits returns or raises: as long as some task has a step to take, a
\* task step is taken.
FairJobs == SpecJobs /\ WF_vars(\E j \in DOMAIN tasks : run_scraping_job(j))

----------------------------------------------------------------------------
(* MongoDBClient.save_businesses(businesses, source_type), one action per   *)
(* await: find_one, then update_one or insert_one.  `store` is the          *)
(* businesses collection in insertion order, a document's _id its position. *)

\* The for loop up to its next await: the return when no business is left,
\* else lines 41-45 and the find_one of the duplicate check, or the
\* insert_one when the business has neither identity.
Iterate(loc) ==
    IF loc.todo = <<>>
    THEN [loc EXCEPT !.pc = "ret"]
    ELSE LET b == AddMetadata(Head(loc.todo), "website")
         IN  [loc EXCEPT !.pc = IF HasNameAddress(b) \/ HasWebsite(b)
                                THEN "find" ELSE "write",
                         !.todo = Tail(loc.todo),
                         !.business = b,
                         !.existing = 0,
                         !.snapshot = NoBusiness]

\* The call, up to its first await
SaveStart(p, businesses) ==
    /\ sv[p].pc = "idle"
    /\ sv' = [sv EXCEPT ![p] =
           Iterate([IdleSaver EXCEPT !.todo = businesses,
                                     !.n = Len(businesses)])]
    /\ UNCHANGED <<store, jobVars, extVars>>

\* existing = await collection.find_one(...)
SaveFind(p) ==
    /\ sv[p].pc = "find"
    /\ LET e == FindExisting(store, sv[p].business)
       IN  sv' = [sv EXCEPT ![p].pc = "write",
                            ![p].existing = e,
                            ![p].snapshot = IF e = 0 THEN NoBusiness ELSE store[e]]
    /\ UNCHANGED <<store, twice, order, jobVars, extVars>>

\* Variant: an update is not counted
UpdatedCountKept(loc) == loc

\* line 63: updated_count += 1
UpdatedCount(loc) == [loc EXCEPT !.updated = @ + 1]

\* await collection.update_one(...) or await collection.insert_one(...),
\* the count, and the loop up to the next await
SaveWrite(p) ==
    /\ sv[p].pc = "write"
    /\ LET loc == sv[p]
       IN  IF loc.existing # 0
           THEN /\ store' = [store EXCEPT ![loc.existing] =
                       UpdateSet(@, MergeBusinessData(loc.snapshot, loc.business))]
                /\ sv' = [sv EXCEPT ![p] = Iterate(UpdatedCount(loc))]
           ELSE /\ Len(store) < MaxRecords
                /\ store' = Append(store, AddCreatedAt(loc.business))
                /\ sv' = [sv EXCEPT ![p] =
                       Iterate([loc EXCEPT !.saved = @ + 1])]
    /\ UNCHANGED <<twice, order, jobVars, extVars>>

\* return {"saved": saved_count, "updated": updated_count}
SaveReturn(p) ==
    /\ sv[p].pc = "ret"
    /\ sv' = [sv EXCEPT ![p] = IdleSaver]
    /\ UNCHANGED <<store, twice, order, jobVars, extVars>>

InitStore ==
    /\ store = <<>>
    /\ sv = [p \in Savers |-> IdleSaver]
    /\ twice = NoTwice
    /\ order = NoOrder
    /\ ex = NoExtraction
    /\ it = <<>>
    /\ parse = NoParse
    /\ orch = NoOrch
    /\ InitScrape
    /\ jobs = <<>>
    /\ tasks = <<>>
    /\ resp = NoResp

----------------------------------------------------------------------------
(* One caller at a time: any history of save_businesses calls, then the     *)
(* same one-entity list saved twice in a row.                               *)

\* The incoming business dicts: every combination of the identity keys,
\* and the non-identity scalar absent, falsy and with two values
SeqEntities ==
    {Business("A", "X", Absent, ph) : ph \in {Absent, Null, "p1", "p2"}}
    \cup {Business("A", "X", "w", Absent),
          Business("A", Absent, "w", Absent),
          Business(Absent, "X", "w", Absent),
          Business(Null, "X", Absent, Absent),
          Business("A", Absent, Absent, Absent),
          Business(Absent, Absent, "w", "p1"),
          Business(Absent, Absent, Absent, "p1")}

SeqLists ==
    UNION {[1..n -> SeqEntities] : n \in 0..MaxItems}

SeqSave(businesses) ==
    /\ twice.stage = 0
    /\ SaveStart(1, businesses)
    /\ UNCHANGED <<twice, order>>

\* First save_businesses([E]), E with a non-empty name and address
TwiceFirst(E) ==
    /\ twice.stage = 0
    /\ HasNameAddress(E)
    /\ SaveStart(1, <<E>>)
    /\ twice' = [stage |-> 1, ent |-> E]
    /\ UNCHANGED order

\* Second save_businesses([E]), after the first has returned
TwiceSecond ==
    /\ twice.stage = 1
    /\ SaveStart(1, <<twice.ent>>)
    /\ twice' = [twice EXCEPT !.stage = 2]
    /\ UNCHANGED order

NextSeq ==
    \/ \E businesses \in SeqLists : SeqSave(businesses)
    \/ \E E \in SeqEntities : TwiceFirst(E)
    \/ TwiceSecond
    \/ SaveFind(1)
    \/ SaveWrite(1)
    \/ SaveReturn(1)

SpecSeq == InitStore /\ [][NextSeq]_vars

----------------------------------------------------------------------------
(* One caller at a time: any history of one-entity saves, then two entities  *)
(* with the same identity saved one after the other; `order.alt` is the      *)
(* collection that saving them the other way round gives.                    *)

\* The collection after save_businesses([business]) has run alone on coll
Saved(coll, business) ==
    LET b == AddMetadata(business, "website")
        e == FindExisting(coll, b)
    IN  IF e # 0
        THEN [coll EXCEPT ![e] = UpdateSet(@, MergeBusinessData(coll[e], b))]
        ELSE Append(coll, AddCreatedAt(b))

\* Both are looked up by the same (name, address), or both by the same website
SameIdentity(A, B) ==
    \/ /\ HasNameAddress(A) /\ HasNameAddress(B)
       /\ A.name = B.name /\ A.address = B.address
    \/ /\ ~HasNameAddress(A) /\ ~HasNameAddress(B)
       /\ HasWebsite(A) /\ HasWebsite(B)
       /\ A.website = B.website

\* No field for which A and B carry different non-empty values
NoConflict(A, B) ==
    \A k \in DOMAIN A \cap DOMAIN B :
        Has(A, k) /\ Has(B, k) => A[k] = B[k]

OrderSave(business) ==
    /\ order.stage = 0
    /\ SaveStart(1, <<business>>)
    /\ UNCHANGED <<twice, order>>

\* save_businesses([A]) of the order A, B
OrderFirst(A, B) ==
    /\ order.stage = 0
    /\ SameIdentity(A, B)
    /\ NoConflict(A, B)
    /\ SaveStart(1, <<A>>)
    /\ order' = [stage |-> 1, a |-> A, b |-> B,
                 alt |-> Saved(Saved(store, B), A)]
    /\ UNCHANGED twice

\* save_businesses([B]), after the first call has returned
OrderSecond ==
    /\ order.stage = 1
    /\ SaveStart(1, <<order.b>>)
    /\ order' = [order EXCEPT !.stage = 2]
    /\ UNCHANGED twice

NextOrder ==
    \/ \E business \in SeqEntities : OrderSave(business)
    \/ \E A, B \in SeqEntities : OrderFirst(A, B)
    \/ OrderSecond
    \/ SaveFind(1)
    \/ SaveWrite(1)
    \/ SaveReturn(1)

SpecOrder == InitStore /\ [][NextOrder]_vars

----------------------------------------------------------------------------
(* Two callers at once, every business with the same (name, address)        *)

\* The incoming business dicts: the bare identity, the identity with the
\* other keys present but empty (None), and one new field each
ConcEntities ==
    {Business("A", "X", Absent, Absent),
     Business("A", "X", Null, Null),
     Business("A", "X", Absent, "p1"),
     Business("A", "X", "w", Absent)}

ConcSave(p, businesses) ==
    /\ SaveStart(p, businesses)
    /\ UNCHANGED <<twice, order>>

NextConc ==
    \/ \E p \in Savers : \E E \in ConcEntities : ConcSave(p, <<E>>)
    \/ \E p \in Savers : SaveFind(p)
    \/ \E p \in Savers : SaveWrite(p)
    \/ \E p \in Savers : SaveReturn(p)

SpecConc == InitStore /\ [][NextConc]_vars

----------------------------------------------------------------------------
(* One caller at a time, every business with the same (name, address) and   *)
(* a mapping for hours or for social_media                                  *)

MappingKeys == {"k1", "k2"}

MappingValues == {"v1", "v2"}

\* The dicts over MappingKeys, as sets of <<key, value>> pairs
Mappings ==
    {m \in SUBSET (MappingKeys \X MappingValues) :
        \A a, b \in m : a[1] = b[1] => a = b}

\* The keys of a mapping
Keys(m) == {kv[1] : kv \in m}

MappingEntities ==
    {[name |-> "A", address |-> "X", hours |-> m] : m \in Mappings}
    \cup {[name |-> "A", address |-> "X", social_media |-> m] : m \in Mappings}
    \cup {Business("A", "X", Absent, Absent)}

MappingSave(business) ==
    /\ SaveStart(1, <<business>>)
    /\ UNCHANGED <<twice, order>>

NextMapping ==
    \/ \E business \in MappingEntities : MappingSave(business)
    \/ SaveFind(1)
    \/ SaveWrite(1)
    \/ SaveReturn(1)

SpecMapping == InitStore /\ [][NextMapping]_vars

----------------------------------------------------------------------------
(* LLMDataExtractor.execute_data_extraction(extraction_method), one action   *)
(* per await.  The process_item tasks of a batch run concurrently under      *)
(* asyncio.gather; `it[k]` is the task of the k-th item of the batch.        *)

\* The await a process_item task is at when it has just called `method`:
\* litellm.acompletion, or the entry of `async with AsyncWebCrawler`
FirstAwait(method) == IF method = "direct" THEN "direct" ELSE "open"

\* process_item(data_item) up to its first await
NewItem(method) ==
    [pc |-> FirstAwait(method),
     log |-> <<method>>,        \* the methods called for the item, in order
     attempts |-> 0,            \* crawler.arun calls
     failures |-> 0,            \* crawler.arun calls that reported a failure
     primary |-> NoResult,      \* what the primary method returned
     result |-> NoResult]       \* what process_item returned

\* The batch that starts at index `start` of the input: one task per item
NewBatch(input, start, method) ==
    LET size == IF Len(input) - start < max_batch_size
                THEN Len(input) - start ELSE max_batch_size
    IN  [k \in 1..size |-> NewItem(method)]

\* lines 455-469: a method has returned `result` to process_item.  The result
\* of the primary method is returned if _is_successful, else the other
\* method is called; the result of the other method is returned as it is.
AfterMethod(item, method, result) ==
    IF Len(item.log) = 1
    THEN IF IsSuccessful(result)
         THEN [item EXCEPT !.pc = "done", !.primary = result, !.result = result]
         ELSE [item EXCEPT !.pc = FirstAwait(Other(method)),
                           !.log = Append(@, Other(method)),
                           !.primary = result]
    ELSE [item EXCEPT !.pc = "done", !.result = result]

\* source_url of the k-th item of the current batch
SourceUrl(k) == ex.input[ex.start + k].url

\* lines 498-524: the call up to the gather of its first batch
ExecStart(input, schema_type, method) ==
    /\ ex.pc = "new"
    /\ ex' = [NoExtraction EXCEPT !.pc = "batch",
                                  !.schema_type = schema_type,
                                  !.method = method,
                                  !.input = input]
    /\ it' = NewBatch(input, 0, method)

\* An extractor on n fetched pages, called with either method
Extract(n, schema_type, method) ==
    /\ ExecStart([i \in 1..n |-> Item(i, "content")], schema_type, method)
    /\ UNCHANGED <<parse, orch, jobVars, storeVars, scrapeVars>>

\* await litellm.acompletion(...) of _extract_via_direct_api, and what
\* follows it up to the next await of the task
ItemDirect(k) ==
    /\ ex.pc = "batch"
    /\ k \in DOMAIN it
    /\ it[k].pc = "direct"
    /\ \E outcome \in {Raises} \cup LLMResponses :
          it' = [it EXCEPT ![k] =
                    AfterMethod(@, "direct",
                        ExtractViaDirectApi(ex.schema_type, outcome, SourceUrl(k)))]
    /\ UNCHANGED <<ex, parse, orch, jobVars, storeVars, scrapeVars>>

\* _extract_via_crawl4ai up to the entry of `async with AsyncWebCrawler`: the
\* strategy configuration fails and an error response is returned, the
\* crawler starts, or its start raises, which nothing in process_item catches
ItemOpen(k) ==
    /\ ex.pc = "batch"
    /\ k \in DOMAIN it
    /\ it[k].pc = "open"
    /\ \E outcome \in {"ok", "config_error", "raise"} :
          it' = [it EXCEPT ![k] =
                    IF outcome = "ok" THEN [@ EXCEPT !.pc = "arun"]
                    ELSE IF outcome = "raise" THEN [@ EXCEPT !.pc = "raised"]
                    ELSE AfterMethod(@, "crawl4ai",
                             ErrorResponse(ex.schema_type,
                                 "Extraction strategy configuration failed",
                                 SourceUrl(k)))]
    /\ UNCHANGED <<ex, parse, orch, jobVars, storeVars, scrapeVars>>

\* await crawler.arun(...) and the rest of the pass of the retry loop
ItemRun(k) ==
    /\ ex.pc = "batch"
    /\ k \in DOMAIN it
    /\ it[k].pc = "arun"
    /\ \E outcome \in {Raises, Failure} \cup LLMResponses :
          it' = [it EXCEPT ![k] =
                    AfterMethod(
                        [@ EXCEPT !.attempts = @ + 1,
                                  !.failures = IF outcome = Failure
                                               THEN @ + 1 ELSE @],
                        "crawl4ai",
                        CrawlAttempt(ex.schema_type, outcome, SourceUrl(k),
                                     it[k].attempts))]
    /\ UNCHANGED <<ex, parse, orch, jobVars, storeVars, scrapeVars>>

\* Variant of the gather that hands the results back last item first
GatheredReversed(batch) ==
    [k \in DOMAIN batch |-> batch[Len(batch) + 1 - k].result]

\* await asyncio.gather(*tasks): the results in the order of the tasks
Gathered(batch) ==
    [k \in DOMAIN batch |-> batch[k].result]

\* The indices of the items of the current batch
BatchOrigin == [k \in DOMAIN it |-> ex.start + k]

\* The loop after a batch: the inter-batch sleep if asked for, the next
\* batch, or the return
AfterBatch(call, sleep) ==
    IF call.start + max_batch_size < Len(call.input)
    THEN IF sleep
         THEN [call EXCEPT !.pc = "sleep"]
         ELSE [call EXCEPT !.pc = "batch", !.start = @ + max_batch_size]
    ELSE [call EXCEPT !.pc = "returned"]

\* The tasks that run once AfterBatch has moved on
TasksOf(call) ==
    IF call.pc = "batch"
    THEN NewBatch(call.input, call.start, call.method)
    ELSE <<>>

\* lines 528-536: the gather returns, every task has returned
BatchDone ==
    /\ ex.pc = "batch"
    /\ \A k \in DOMAIN it : it[k].pc = "done"
    /\ ex' = AfterBatch([ex EXCEPT !.results = @ \o Gathered(it),
                                   !.origin = @ \o BatchOrigin,
                                   !.own = @ \o [k \in DOMAIN it |-> it[k].result]],
                        TRUE)
    /\ it' = TasksOf(ex')
    /\ UNCHANGED <<parse, orch, jobVars, storeVars, scrapeVars>>

\* line 536: await asyncio.sleep(inter_batch_delay), then the next batch
InterBatchSleep ==
    /\ ex.pc = "sleep"
    /\ ex' = [ex EXCEPT !.pc = "batch", !.start = @ + max_batch_size]
    /\ it' = TasksOf(ex')
    /\ UNCHANGED <<parse, orch, jobVars, storeVars, scrapeVars>>

\* lines 538-549: the gather raises what a task raised; every item of the
\* batch gets an error response, and the loop goes on without a sleep
BatchFail ==
    /\ ex.pc = "batch"
    /\ \E k \in DOMAIN it : it[k].pc = "raised"
    /\ ex' = AfterBatch(
                [ex EXCEPT !.results = @ \o
                               [k \in DOMAIN it |->
                                   ErrorResponse(ex.schema_type,
                                       "Batch processing failed", SourceUrl(k))],
                           !.origin = @ \o BatchOrigin,
                           !.own = @ \o [k \in DOMAIN it |-> it[k].result]],
                FALSE)
    /\ it' = TasksOf(ex')
    /\ UNCHANGED <<parse, orch, jobVars, storeVars, scrapeVars>>

NextExtract ==
    \/ \E n \in 1..MaxInput : \E schema_type \in SchemaTypes :
          \E method \in ExtractionMethods : Extract(n, schema_type, method)
    \/ \E k \in 1..max_batch_size : ItemDirect(k)
    \/ \E k \in 1..max_batch_size : ItemOpen(k)
    \/ \E k \in 1..max_batch_size : ItemRun(k)
    \/ BatchDone
    \/ InterBatchSleep
    \/ BatchFail

SpecExtract == InitStore /\ [][NextExtract]_vars

----------------------------------------------------------------------------
(* One LLM response on its way through one extraction method: the response  *)
(* content is drawn from Contents, then _extract_via_direct_api or one pass  *)
(* of _extract_via_crawl4ai turns it into the result of the method.          *)

\* The LLM answers the request of `method` with `content`
ParseStart(method, schema_type, content) ==
    /\ parse.stage = 0
    /\ parse' = [stage |-> 1, method |-> method, schema_type |-> schema_type,
                 content |-> content, result |-> NoResult]
    /\ UNCHANGED <<ex, it, orch, jobVars, storeVars, scrapeVars>>

\* _extract_via_direct_api from raw_response_content to its return
ParseDirect ==
    /\ parse.stage = 1
    /\ parse.method = "direct"
    /\ parse' = [parse EXCEPT
                   !.stage = 2,
                   !.result = ExtractViaDirectApi(parse.schema_type,
                                                  parse.content, "u1")]
    /\ UNCHANGED <<ex, it, orch, jobVars, storeVars, scrapeVars>>

\* _extract_via_crawl4ai from crawl_result.extracted_content of the first
\* attempt to its return
ParseCrawl4ai ==
    /\ parse.stage = 1
    /\ parse.method = "crawl4ai"
    /\ parse' = [parse EXCEPT
                   !.stage = 2,
                   !.result = CrawlAttempt(parse.schema_type, parse.content,
                                           "u1", 0)]
    /\ UNCHANGED <<ex, it, orch, jobVars, storeVars, scrapeVars>>

NextParse ==
    \/ \E method \in ExtractionMethods : \E schema_type \in SchemaTypes :
          \E content \in Contents : ParseStart(method, schema_type, content)
    \/ ParseDirect
    \/ ParseCrawl4ai

SpecParse == InitStore /\ [][NextParse]_vars

----------------------------------------------------------------------------
(* The two orchestrators, from the scrape to the return of the extraction:  *)
(* WebsitesScraping.scrape_and_extract_data and                              *)
(* SearchResultsScraper.extract_business_urls_from_searches                  *)

FetchesOf(n) == [1..n -> FetchResults]

\* scraped_data = await self.scrape_multiple_websites(): one result per URL
\* in URL order, or an error response for every URL when the scrape raises
ScrapedData(n, scraping_method, raises, success, r) ==
    [url \in 1..n |->
        IF raises THEN Item(url, "error")
        ELSE IF scraping_method = "direct"
        THEN ScrapeSingleUrlDirect(url, r[url])
        ELSE ProcessCrawl4aiResult(url, success[url], r[url])]

\* A website orchestrator up to the return of scrape_multiple_websites
ScrapeMultipleWebsites(n, scraping_method, raises, success, r) ==
    /\ orch.pc = "idle"
    /\ orch' = [NoOrch EXCEPT
          !.pc = "scraped",
          !.kind = "website",
          !.scraped = ScrapedData(n, scraping_method, raises, success, r)]
    /\ UNCHANGED <<ex, it, parse, jobVars, storeVars, scrapeVars>>

\* lines 497-519: the filter, the early return when nothing is left, else
\* the extractor on valid_scraped_data and its call up to the first gather
WebsiteExtract(extraction_method) ==
    /\ orch.pc = "scraped"
    /\ orch.kind = "website"
    /\ LET valid_scraped_data == ValidScrapedData(orch.scraped)
       IN  IF valid_scraped_data = <<>>
           THEN /\ orch' = [orch EXCEPT !.pc = "returned", !.out = orch.scraped]
                /\ UNCHANGED <<ex, it, scrapeVars>>
           ELSE /\ ExecStart(valid_scraped_data, "website", extraction_method)
                /\ orch' = [orch EXCEPT !.pc = "extracting"]
    /\ UNCHANGED <<parse, jobVars, storeVars, scrapeVars>>

\* scraped_search_data = await self.scrape_multiple_search_results(...): one
\* result per URL in URL order; an exception of batch_scrape is re-raised
ScrapeMultipleSearchResults(n, raises, r) ==
    /\ orch.pc = "idle"
    /\ orch' = IF raises
               THEN [NoOrch EXCEPT !.pc = "raised", !.kind = "search"]
               ELSE [NoOrch EXCEPT
                       !.pc = "scraped",
                       !.kind = "search",
                       !.scraped = [url \in 1..n |-> SearchScrapeResult(url, r[url])]]
    /\ UNCHANGED <<ex, it, parse, jobVars, storeVars, scrapeVars>>

\* lines 370-397: the extractor on scraped_search_data and its call up to the
\* first gather
SearchExtract(llm_extraction_method) ==
    /\ orch.pc = "scraped"
    /\ orch.kind = "search"
    /\ ExecStart(orch.scraped, "search", llm_extraction_method)
    /\ orch' = [orch EXCEPT !.pc = "extracting"]
    /\ UNCHANGED <<parse, jobVars, storeVars, scrapeVars>>

\* execute_data_extraction has returned; the orchestrator returns its results
OrchReturn ==
    /\ orch.pc = "extracting"
    /\ ex.pc = "returned"
    /\ orch' = [orch EXCEPT !.pc = "returned", !.out = ex.results]
    /\ UNCHANGED <<ex, it, parse, jobVars, storeVars, scrapeVars>>

\* A website orchestrator is called on 1..MaxUrls URLs with either scraping
\* method
WebsiteScrape ==
    /\ orch.pc = "idle"
    /\ \E n \in 1..MaxUrls : \E scraping_method \in {"direct", "crawl4ai"} :
          \E raises \in BOOLEAN : \E success \in [1..n -> BOOLEAN] :
             \E r \in FetchesOf(n) :
                ScrapeMultipleWebsites(n, scraping_method, raises, success, r)

\* A search orchestrator is called on 1..MaxUrls search URLs
SearchScrape ==
    /\ orch.pc = "idle"
    /\ \E n \in 1..MaxUrls : \E raises \in BOOLEAN : \E r \in FetchesOf(n) :
          ScrapeMultipleSearchResults(n, raises, r)

NextOrch ==
    \/ WebsiteScrape
    \/ \E extraction_method \in ExtractionMethods :
          WebsiteExtract(extraction_method)
    \/ SearchScrape
    \/ \E llm_extraction_method \in ExtractionMethods :
          SearchExtract(llm_extraction_method)
    \/ \E k \in 1..max_batch_size : ItemDirect(k)
    \/ \E k \in 1..max_batch_size : ItemOpen(k)
    \/ \E k \in 1..max_batch_size : ItemRun(k)
    \/ BatchDone
    \/ InterBatchSleep
    \/ BatchFail
    \/ OrchReturn

SpecOrch == InitStore /\ [][NextOrch]_vars

----------------------------------------------------------------------------
(* scrapers/websites_scraping_with_db.py: process_website_urls(urls, job_id) *)
(* as run_scraping_job awaits it for a WEBSITE job, from the scrape through  *)
(* the extraction and save_businesses to the summary it returns.  The task   *)
(* stays at "website_call" while the call runs; `orch.pc` is the position    *)
(* inside the call and caller 1 of save_businesses is the call's save.       *)

\* result.get("source", {}).get(key, "")
SourceOf(result, key) ==
    IF "source" \in DOMAIN result THEN result.source[key] ELSE Null

\* lines 65-66: entity["source_url"] = ...; entity["source_name"] = ...
AddSource(entity, result) ==
    [k \in DOMAIN entity \cup {"source_url", "source_name"} |->
        IF k = "source_url" THEN SourceOf(result, "url")
        ELSE IF k = "source_name" THEN SourceOf(result, "name")
        ELSE entity[k]]

\* lines 58-73: successful_results of results_list.  No result has a truthy
\* "error_type", "name" or "business_name" key of its own: a result is an
\* extraction result or a {url: ...} scraped data item.
RECURSIVE SuccessfulResults(_)
SuccessfulResults(results_list) ==
    IF results_list = <<>>
    THEN <<>>
    ELSE LET result == Head(results_list)
             entities == IF "entities" \in DOMAIN result
                         THEN [i \in DOMAIN result.entities |->
                                  AddSource(result.entities[i], result)]
                         ELSE <<>>
         IN  entities \o SuccessfulResults(Tail(results_list))

WebsiteJobRequests == {req \in CreateJobRequest : req.type = WEBSITE}

\* line 47: WebsitesScraping(urls=[], ...) raises ValueError
ProcessUrlsInit(j) ==
    /\ tasks[j].pc = "website_call"
    /\ GetLen(jobs[j].parameters.urls) = 0
    /\ tasks' = [tasks EXCEPT ![j].pc = "except",
                              ![j].exc = OrchestratorError,
                              ![j].worked = TRUE]
    /\ UNCHANGED <<jobs, resp, storeVars, extVars>>

\* lines 47-55 up to the return of scrape_multiple_websites: the scraper is
\* built with scraping_method 'direct'
ProcessUrlsScrape(j) ==
    /\ tasks[j].pc = "website_call"
    /\ GetLen(jobs[j].parameters.urls) > 0
    /\ orch.pc = "idle"
    /\ LET n == GetLen(jobs[j].parameters.urls)
       IN  \E raises \in BOOLEAN : \E r \in FetchesOf(n) :
              orch' = [NoOrch EXCEPT
                  !.pc = "scraped",
                  !.kind = "website",
                  !.scraped = ScrapedData(n, "direct", raises,
                                          [url \in 1..n |-> TRUE], r),
                  !.fetched = IF raises THEN <<>> ELSE r]
    /\ UNCHANGED <<ex, it, parse, jobVars, storeVars, scrapeVars>>

\* line 55, scrape_and_extract_data() with its default extraction_method
ProcessUrlsExtract == WebsiteExtract("crawl4ai")

\* lines 57-82: successful_results, and save_businesses up to its first
\* await when there is something to save
ProcessUrlsResults(j) ==
    /\ tasks[j].pc = "website_call"
    /\ orch.pc = "returned"
    /\ LET successful_results == SuccessfulResults(orch.out)
       IN  IF successful_results # <<>>
           THEN /\ sv' = [sv EXCEPT ![1] =
                       Iterate([IdleSaver EXCEPT
                                  !.todo = successful_results,
                                  !.n = Len(successful_results)])]
                /\ orch' = [orch EXCEPT
                       !.pc = "saving",
                       !.entities_found = Len(successful_results)]
           ELSE /\ sv' = sv
                /\ orch' = [orch EXCEPT !.pc = "progress",
                                        !.entities_found = 0]
    /\ UNCHANGED <<store, twice, order, ex, it, parse, jobVars, scrapeVars>>

\* lines 81-84: an await of save_businesses (find_one, update_one or
\* insert_one) raises; the except logs the error and process_urls goes on
ProcessUrlsSaveRaises(j) ==
    /\ tasks[j].pc = "website_call"
    /\ orch.pc = "saving"
    /\ sv[1].pc \in {"find", "write"}
    /\ sv' = [sv EXCEPT ![1] = IdleSaver]
    /\ orch' = [orch EXCEPT !.pc = "progress", !.save_raised = TRUE]
    /\ UNCHANGED <<store, twice, order, ex, it, parse, jobVars, scrapeVars>>

\* lines 95-102: the dict process_urls returns
Summary(urls_processed, entities_found, save_to_db) ==
    [urls_processed |-> urls_processed,
     entities_found |-> entities_found,
     saved_to_db |-> save_to_db /\ entities_found > 0,
     status |-> "completed"]

\* lines 87-102: save_businesses has returned or raised or was not called;
\* update_job_progress sets the job's `progress`, process_urls returns its
\* summary (save_to_db has its default, True) and the runner goes on to its
\* last update
ProcessUrlsProgress(j) ==
    /\ tasks[j].pc = "website_call"
    /\ \/ orch.pc = "saving" /\ sv[1].pc = "ret"
       \/ orch.pc = "progress"
    /\ sv' = [sv EXCEPT ![1] = IdleSaver]
    /\ orch' = [orch EXCEPT
           !.pc = "done",
           !.summary = Summary(GetLen(jobs[j].parameters.urls),
                               orch.entities_found, TRUE)]
    /\ jobs' = [jobs EXCEPT ![j].progress = "set"]
    /\ tasks' = [tasks EXCEPT ![j].pc = "complete",
                              ![j].result = "summary",
                              ![j].worked = TRUE]
    /\ UNCHANGED <<resp, store, twice, order, ex, it, parse, scrapeVars>>

\* A job of at most MaxItems URLs is one batch of the extractor
NextWebsiteJob ==
    \/ \E req \in WebsiteJobRequests : create_job(req)
    \/ \E id \in JobIds : cancel_job(id)
    \/ Respond
    \/ \E j \in DOMAIN tasks : RunStart(j)
    \/ \E j \in DOMAIN tasks : RunFind(j)
    \/ \E j \in DOMAIN tasks : RunWebsiteProgress(j)
    \/ \E j \in DOMAIN tasks : ProcessUrlsInit(j)
    \/ \E j \in DOMAIN tasks : ProcessUrlsScrape(j)
    \/ ProcessUrlsExtract
    \/ \E k \in 1..max_batch_size : ItemDirect(k)
    \/ \E k \in 1..max_batch_size : ItemOpen(k)
    \/ \E k \in 1..max_batch_size : ItemRun(k)
    \/ BatchDone
    \/ BatchFail
    \/ OrchReturn
    \/ \E j \in DOMAIN tasks : ProcessUrlsResults(j)
    \/ SaveFind(1)
    \/ SaveWrite(1)
    \/ \E j \in DOMAIN tasks : ProcessUrlsSaveRaises(j)
    \/ \E j \in DOMAIN tasks : ProcessUrlsProgress(j)
    \/ \E j \in DOMAIN tasks : RunComplete(j)
    \/ \E j \in DOMAIN tasks : RunExcept(j)

SpecWebsiteJob == InitJobs /\ [][NextWebsiteJob]_vars

----------------------------------------------------------------------------
(* One fetch: HtmlPageScraper.request_html(url) for the direct backend,      *)
(* PlaywrightBrowserManager.get_html_content(url, page) for the browser      *)
(* backend, one action per await that can raise.                             *)

FetchFrame == UNCHANGED <<ex, it, parse, orch, jobVars, storeVars, pipeVars>>

\* The call up to its first await
FetchRequest(backend, page) ==
    /\ ft.pc = "idle"
    /\ ft' = [NoFetch EXCEPT !.pc = IF backend = "direct" THEN "get" ELSE "goto",
                             !.backend = backend,
                             !.page = page]
    /\ FetchFrame

\* request_html: response = await session.get(...); an exception is caught
\* and (None, 'Error: ...') returned
DirectGet ==
    /\ ft.pc = "get"
    /\ \E raises \in BOOLEAN :
          ft' = IF raises
                THEN [ft EXCEPT !.pc = "done", !.failed = TRUE,
                                !.result = Returned(NoHtml, ErrorText)]
                ELSE [ft EXCEPT !.pc = "text"]
    /\ FetchFrame

\* request_html: raw_html = await response.text(); return raw_html,
\* response.status
DirectText ==
    /\ ft.pc = "text"
    /\ \E raises \in BOOLEAN :
          ft' = IF raises
                THEN [ft EXCEPT !.pc = "done", !.failed = TRUE,
                                !.result = Returned(NoHtml, ErrorText)]
                ELSE [ft EXCEPT !.pc = "done",
                                !.raw_html = ft.page.length,
                                !.result = Returned(ft.page.length,
                                                    Code(ft.page.status))]
    /\ FetchFrame

\* The except block of get_html_content: status_code = 'UNEXPECTED_ERROR';
\* return raw_html, status_code.  When raw_html is not assigned yet the
\* return raises UnboundLocalError, which leaves the method.
ExceptReturn(fetch) ==
    [fetch EXCEPT !.pc = "done",
                  !.failed = TRUE,
                  !.result = IF fetch.raw_html = NoHtml
                             THEN Raises
                             ELSE Returned(fetch.raw_html,
                                           Sentinel("UNEXPECTED_ERROR"))]

\* get_html_content lines 97-112: page.goto, page.route, page.mouse.move;
\* _scroll_and_for_content catches its own exceptions
BrowserNavigate ==
    /\ ft.pc = "goto"
    /\ \E raises \in BOOLEAN :
          ft' = IF raises THEN ExceptReturn(ft) ELSE [ft EXCEPT !.pc = "content"]
    /\ FetchFrame

\* lines 113-117 and 156-158: raw_html = await page.content() and the length
\* test
BrowserContent ==
    /\ ft.pc = "content"
    /\ \E raises \in BOOLEAN :
          ft' = IF raises
                THEN ExceptReturn(ft)
                ELSE IF ft.page.length < browser_min_html_length
                THEN [ft EXCEPT !.pc = "short", !.raw_html = ft.page.length]
                ELSE [ft EXCEPT !.pc = "done",
                                !.raw_html = ft.page.length,
                                !.result = Returned(ft.page.length, Code(200))]
    /\ FetchFrame

\* lines 118-147 and 154-155: the screenshot of the short page and the search
\* for blocking terms
BrowserShort ==
    /\ ft.pc = "short"
    /\ \E raises \in BOOLEAN :
          ft' = IF raises
                THEN ExceptReturn(ft)
                ELSE IF ft.page.blocking
                THEN [ft EXCEPT !.pc = "captcha"]
                ELSE [ft EXCEPT !.pc = "done",
                                !.result = Returned(ft.raw_html,
                                               Sentinel("HTML_TOO_SHORT"))]
    /\ FetchFrame

\* lines 148-152: the CAPTCHA screenshot, then input(), which returns when a
\* line is typed and raises EOFError when the process has no standard input
BrowserCaptcha ==
    /\ ft.pc = "captcha"
    /\ \E outcome \in {"typed", "screenshot_raises", "eof"} :
          ft' = IF outcome = "typed"
                THEN [ft EXCEPT !.pc = "done",
                                !.result = Returned(ft.raw_html,
                                               Sentinel("CAPTCHA_DETECTED"))]
                ELSE [ExceptReturn(ft) EXCEPT
                         !.failed = (outcome = "screenshot_raises")]
    /\ FetchFrame

NextFetch ==
    \/ \E backend \in Backends : \E page \in Pages : FetchRequest(backend, page)
    \/ DirectGet
    \/ DirectText
    \/ BrowserNavigate
    \/ BrowserContent
    \/ BrowserShort
    \/ BrowserCaptcha

SpecFetch == InitStore /\ [][NextFetch]_vars

----------------------------------------------------------------------------
(* The hand-over of a pipeline run, from the search phase to the scrape     *)
(* phase: lines 100-105 of run_scraping_job for a Pipeline job, and          *)
(* run_pipeline of main.py for the command line.                             *)

\* What the calls of this part of the model leave alone
otherVars == <<jobVars, storeVars, ex, it, parse, orch, ft>>

PipeFrame == UNCHANGED <<otherVars, sem, se, gu, nz>>

\* The urls lists a search phase can answer with
UrlLists == ListsOf(Urls, MaxUrls)

\* The search results of the command line: one urls list per search
SearchResults == ListsOf(ListsOf(Urls, MaxArray), MaxResults)

\* main.py 475-477: the inner loop over result.urls
RECURSIVE AppendUnique(_, _)
AppendUnique(website_urls, urls) ==
    IF urls = <<>> THEN website_urls
    ELSE AppendUnique(IF \E i \in DOMAIN website_urls :
                            website_urls[i] = Head(urls)
                      THEN website_urls
                      ELSE Append(website_urls, Head(urls)),
                      Tail(urls))

\* main.py 472-477: website_urls after the loop over search_results
RECURSIVE WebsiteUrls(_, _)
WebsiteUrls(website_urls, search_results) ==
    IF search_results = <<>> THEN website_urls
    ELSE WebsiteUrls(AppendUnique(website_urls, Head(search_results)),
                     Tail(search_results))

\* job_runner.py 100: search_result = await process_search_terms(terms)
JobSearchPhase ==
    /\ pl.pc = "idle"
    /\ \E raises \in BOOLEAN, urls \in UrlLists :
          pl' = IF raises
                THEN [NoPipeline EXCEPT !.pc = "done"]
                ELSE [NoPipeline EXCEPT !.pc = "searched",
                                        !.search_result = urls]
    /\ PipeFrame

\* job_runner.py 103-105: the scrape phase is started with
\* search_result["urls"] when that list is not empty
JobScrapePhase ==
    /\ pl.pc = "searched" /\ pl.path = "job"
    /\ pl' = IF pl.search_result # <<>>
             THEN [pl EXCEPT !.pc = "scraping", !.scraping = TRUE,
                             !.handed = pl.search_result]
             ELSE [pl EXCEPT !.pc = "done"]
    /\ PipeFrame

\* main.py 467: search_results = await scrape_searches(config); None when
\* the input file cannot be loaded
CliSearchPhase ==
    /\ pl.pc = "idle"
    /\ \E search_results \in SearchResults :
          pl' = [NoPipeline EXCEPT !.pc = "searched", !.path = "cli",
                                  !.search_results = search_results]
    /\ PipeFrame

\* main.py 468-504 and scrape_websites 386-404: the URLs are collected,
\* written to the temporary file, read back by load_input_data and handed
\* to create_website_scraper
CliScrapePhase ==
    /\ pl.pc = "searched" /\ pl.path = "cli"
    /\ LET website_urls == WebsiteUrls(<<>>, pl.search_results)
       IN  pl' = IF pl.search_results = <<>> \/ website_urls = <<>>
                 THEN [pl EXCEPT !.pc = "done"]
                 ELSE [pl EXCEPT !.pc = "scraping", !.scraping = TRUE,
                                 !.file = website_urls,
                                 !.handed = website_urls]
    /\ PipeFrame

\* The scrape phase returns or raises; main.py 507-510 removes the file
ScrapePhaseEnds ==
    /\ pl.pc = "scraping"
    /\ pl' = [pl EXCEPT !.pc = "done", !.file = <<>>]
    /\ PipeFrame

NextPipeline ==
    \/ JobSearchPhase
    \/ JobScrapePhase
    \/ CliSearchPhase
    \/ CliScrapePhase
    \/ ScrapePhaseEnds

SpecPipeline == InitStore /\ [][NextPipeline]_vars

----------------------------------------------------------------------------
(* WebsitesScraping.scrape_with_direct_requests(): one scrape_with_semaphore *)
(* task per URL under asyncio.gather, one action per await of a task.  URL k *)
(* is the k-th element of self.urls.                                         *)

SemFrame == UNCHANGED <<otherVars, pl, se, gu, nz>>

\* Variant: a semaphore that never makes a task wait
LockedNever(value) == FALSE

\* asyncio.Semaphore.locked(): no permit is left
Locked(value) == value = 0

\* The tasks that are inside `async with semaphore`
Holders == {k \in DOMAIN sem.task : sem.task[k].pc \in {"request", "sleep"}}

\* lines 380-396 up to the gather: asyncio.Semaphore(value) raises ValueError
\* for a negative value, before the try
ScrapeWithDirectRequests(n, max_concurrent_requests, delay) ==
    /\ sem.pc = "idle"
    /\ sem' = IF max_concurrent_requests < 0
              THEN [NoScrape EXCEPT !.pc = "raised",
                        !.max_concurrent_requests = max_concurrent_requests]
              ELSE [NoScrape EXCEPT !.pc = "gather",
                        !.max_concurrent_requests = max_concurrent_requests,
                        !.delay = delay,
                        !.value = max_concurrent_requests,
                        !.task = [k \in 1..n |-> NewScrapeTask]]
    /\ SemFrame

\* `async with semaphore`: the task takes a permit when one is left
SemAcquire(k) ==
    /\ sem.pc = "gather"
    /\ k \in DOMAIN sem.task
    /\ sem.task[k].pc = "acquire"
    /\ ~Locked(sem.value)
    /\ sem' = [sem EXCEPT !.value = @ - 1, !.task[k].pc = "request"]
    /\ SemFrame

\* lines 387-392: await _scrape_single_url_direct(url), which makes one
\* request_html call and catches what it raises; without a delay the task
\* leaves the `async with` and returns
SemRequest(k) ==
    /\ sem.pc = "gather"
    /\ k \in DOMAIN sem.task
    /\ sem.task[k].pc = "request"
    /\ \E r \in FetchResults :
          LET fetched == [sem.task[k] EXCEPT
                              !.fetches = @ + 1,
                              !.result = ScrapeSingleUrlDirect(k, r)]
          IN  sem' = IF sem.delay
                     THEN [sem EXCEPT !.task[k] = [fetched EXCEPT !.pc = "sleep"]]
                     ELSE [sem EXCEPT !.value = @ + 1,
                                      !.task[k] = [fetched EXCEPT !.pc = "done"]]
    /\ SemFrame

\* line 390: await asyncio.sleep(request_delay_seconds), inside the
\* `async with`; then the permit is given back and the task returns
SemSleep(k) ==
    /\ sem.pc = "gather"
    /\ k \in DOMAIN sem.task
    /\ sem.task[k].pc = "sleep"
    /\ sem' = [sem EXCEPT !.value = @ + 1, !.task[k].pc = "done"]
    /\ SemFrame

\* lines 396-405: the gather returns when every task has returned
SemReturn ==
    /\ sem.pc = "gather"
    /\ \A k \in DOMAIN sem.task : sem.task[k].pc = "done"
    /\ sem' = [sem EXCEPT !.pc = "returned", !.out = Gathered(sem.task)]
    /\ SemFrame

NextScrape ==
    \/ \E n \in 1..MaxUrls : \E max_concurrent_requests \in -1..MaxConcurrent :
          \E delay \in BOOLEAN :
             ScrapeWithDirectRequests(n, max_concurrent_requests, delay)
    \/ \E k \in 1..MaxUrls : SemAcquire(k)
    \/ \E k \in 1..MaxUrls : SemRequest(k)
    \/ \E k \in 1..MaxUrls : SemSleep(k)
    \/ SemReturn

SpecScrape == InitStore /\ [][NextScrape]_vars

----------------------------------------------------------------------------
(* The search URL builders.  A string is the sequence of its characters; a  *)
(* quoted phrase of a query counts as one character.                         *)

Chars == {" ", "x"}

\* The search terms a caller can pass
Terms == ListsOf(Chars, MaxTerm)

RECURSIVE StripLeft(_)
StripLeft(str) ==
    IF str # <<>> /\ Head(str) = " " THEN StripLeft(Tail(str)) ELSE str

RECURSIVE StripRight(_)
StripRight(str) ==
    IF str # <<>> /\ str[Len(str)] = " "
    THEN StripRight(SubSeq(str, 1, Len(str) - 1))
    ELSE str

\* str.strip()
Strip(str) == StripRight(StripLeft(str))

\* urllib.parse.quote_plus: a space becomes a plus sign
QuotePlus(str) == [i \in DOMAIN str |-> IF str[i] = " " THEN "+" ELSE str[i]]

Min(a, b) == IF a < b THEN a ELSE b

Max(a, b) == IF a > b THEN a ELSE b

\* num_results = None
Unset == -1

\* SearchScrapingConfig.default_results_per_page
default_results_per_page == 50

NumResults == {Unset, 5, 50, 500}

PaginationOffsets == {-10, 0, 10}

\* What a builder returned
ReturnedUrl(url) == [kind |-> "return", url |-> url]

\* not search_term or not search_term.strip()
Blank(search_term) == Strip(search_term) = <<>>

\* SearchResultsScraper.generate_search_url(search_term, num_results,
\* pagination_offset=...), the other arguments at their defaults
GenerateSearchUrl(search_term, num_results, pagination_offset) ==
    IF Blank(search_term)
    THEN Raises
    ELSE LET num == IF num_results = Unset
                    THEN default_results_per_page ELSE num_results
         IN  ReturnedUrl(
                 [base |-> "https://www.google.com/search",
                  q |-> QuotePlus(Strip(search_term)),
                  num |-> Min(100, Max(10, num)),
                  cr |-> "countryDO",
                  gl |-> "DO",
                  start |-> Max(0, pagination_offset),
                  tbs |-> "lr:lang_1en"])

\* AdvancedGoogleSearchGenerator.generate_search_url(config), config =
\* SearchConfig(search_term, num_results=...) with the other fields at their
\* defaults: the query is the stripped term and the quoted location
AdvancedGenerateSearchUrl(search_term, num_results) ==
    ReturnedUrl(
        [base |-> "https://www.google.com/search",
         q |-> QuotePlus(Strip(search_term) \o <<" ", "\"Dominican Republic\"">>),
         num |-> Min(num_results, 100),
         lr |-> "lang_es",
         cr |-> "countryDO",
         gl |-> "DO",
         hl |-> "es"])

BuildFrame == UNCHANGED <<otherVars, pl, sem, se, nz>>

\* One call of SearchResultsScraper.generate_search_url
ScraperBuilderCall ==
    /\ gu.pc = "idle"
    /\ \E search_term \in Terms, num_results \in NumResults,
          pagination_offset \in PaginationOffsets :
          gu' = [pc |-> "done", builder |-> "scraper",
                 search_term |-> search_term,
                 num_results |-> num_results,
                 pagination_offset |-> pagination_offset,
                 result |-> GenerateSearchUrl(search_term, num_results,
                                              pagination_offset)]
    /\ BuildFrame

\* One call of AdvancedGoogleSearchGenerator.generate_search_url
AdvancedBuilderCall ==
    /\ gu.pc = "idle"
    /\ \E search_term \in Terms, num_results \in NumResults \ {Unset} :
          gu' = [NoBuild EXCEPT
                    !.pc = "done", !.builder = "advanced",
                    !.search_term = search_term,
                    !.num_results = num_results,
                    !.result = AdvancedGenerateSearchUrl(search_term,
                                                         num_results)]
    /\ BuildFrame

NextBuild ==
    \/ ScraperBuilderCall
    \/ AdvancedBuilderCall

SpecBuild == InitStore /\ [][NextBuild]_vars

----------------------------------------------------------------------------
(* SearchResultsScraper.extract_business_urls_from_searches(search_urls,    *)
(* search_terms), one action per await.  Whatever is raised inside the try   *)
(* is logged and raised again.                                               *)

SearchFrame == UNCHANGED <<otherVars, pl, sem, gu, nz>>

\* [term for term in search_terms if term and term.strip()]
ValidTerms(search_terms) ==
    SelectSeq(search_terms, LAMBDA term : ~Blank(term))

\* Variant: the call goes to the scraping of the search pages unchecked
InputValidationSkipped(search_urls, search_terms) == "scrape"

\* lines 346-360: where the call goes from its arguments
InputValidation(search_urls, search_terms) ==
    IF search_urls = <<>> /\ search_terms = <<>>
    THEN "raised"
    ELSE IF search_urls = <<>>
    THEN IF ValidTerms(search_terms) = <<>> THEN "raised" ELSE "generate"
    ELSE "scrape"

\* The call up to its first await
ExtractBusinessUrlsFromSearches ==
    /\ se.pc = "idle"
    /\ \E search_urls \in ListsOf({"u"}, 1),
          search_terms \in ListsOf(Terms, MaxTerms) :
          se' = [NoSearchExtraction EXCEPT
                    !.pc = InputValidation(search_urls, search_terms),
                    !.search_urls = search_urls,
                    !.search_terms = search_terms,
                    !.urls = search_urls]
    /\ SearchFrame

\* lines 362-368: await asyncio.gather(*url_generation_tasks), then the
\* check of the final list.  A generate_search_url that raises makes the
\* gather raise.
GenerateUrls ==
    /\ se.pc = "generate"
    /\ LET terms == ValidTerms(se.search_terms)
           built == [k \in DOMAIN terms |->
                        GenerateSearchUrl(terms[k], Unset, 0)]
       IN  se' = IF built = <<>> \/ \E k \in DOMAIN built : built[k] = Raises
                 THEN [se EXCEPT !.pc = "raised"]
                 ELSE [se EXCEPT !.pc = "scrape",
                                 !.urls = [k \in DOMAIN built |-> built[k].url]]
    /\ SearchFrame

\* line 372: await self.scrape_multiple_search_results(search_urls); an
\* empty answer is returned as []
ScrapeSearchPages ==
    /\ se.pc = "scrape"
    /\ \E outcome \in {"raised", "returned", "extract"} :
          se' = [se EXCEPT !.pc = outcome, !.fetched = TRUE]
    /\ SearchFrame

\* line 394: await search_url_extractor.execute_data_extraction(...), and
\* the validation of its results
ExtractSearchUrls ==
    /\ se.pc = "extract"
    /\ \E outcome \in {"raised", "returned"} :
          se' = [se EXCEPT !.pc = outcome, !.extracted = TRUE]
    /\ SearchFrame

NextSearch ==
    \/ ExtractBusinessUrlsFromSearches
    \/ GenerateUrls
    \/ ScrapeSearchPages
    \/ ExtractSearchUrls

SpecSearch == InitStore /\ [][NextSearch]_vars

----------------------------------------------------------------------------
(* HTMLContentProcessor.get_llm_friendly_content(raw_html).  A block is the  *)
(* text of one <script type="application/json"> of the page: its position    *)
(* and what json.loads makes of it once entities are unescaped and HTML      *)
(* comments are removed.                                                     *)

NormalizeFrame == UNCHANGED <<otherVars, pl, sem, se, gu>>

\* "json": json.loads returns a value; "malformed": it raises
\* JSONDecodeError; "empty": nothing is left after the cleaning
BlockKinds == {"json", "malformed", "empty"}

Block(id, kind) == [id |-> id, kind |-> kind]

\* The script blocks a page can hold, in document order
Scripts ==
    UNION {{[i \in 1..n |-> Block(i, kinds[i])] : kinds \in [1..n -> BlockKinds]} :
              n \in 0..MaxBlocks}

\* The value json.loads returned for a block
ParsedJson(block) == [parsed |-> block.id]

\* The text of a block as script.get_text() returned it
RawScript(block) == [raw |-> block.id]

\* parse_json_scripts(script_contents): a block that is empty or does not
\* parse is skipped
RECURSIVE ParseJsonScripts(_)
ParseJsonScripts(script_contents) ==
    IF script_contents = <<>> THEN <<>>
    ELSE LET raw_script == Head(script_contents)
             rest == ParseJsonScripts(Tail(script_contents))
         IN  IF raw_script.kind = "json"
             THEN <<ParsedJson(raw_script)>> \o rest
             ELSE rest

\* lines 313-317: the parsed blocks, or every raw text when none parsed
JsonScripts(scripts) ==
    LET raw_script_contents == [i \in DOMAIN scripts |-> RawScript(scripts[i])]
        parsed_scripts_list == ParseJsonScripts(scripts)
    IN  IF parsed_scripts_list = <<>>
        THEN raw_script_contents
        ELSE parsed_scripts_list

\* The whole call: the extraction of the blocks (an exception of find_all or
\* get_text is logged and leaves the list empty), then the Markdown
\* conversion or, when it fails or is short, the backup cleaner
GetLlmFriendlyContent ==
    /\ nz.pc = "idle"
    /\ \E scripts \in Scripts, raises \in BOOLEAN, markdown \in BOOLEAN :
          nz' = [pc |-> "returned",
                 scripts |-> scripts,
                 content |-> IF markdown THEN "markdown" ELSE "cleaned_html",
                 json_scripts |-> IF raises THEN <<>> ELSE JsonScripts(scripts)]
    /\ NormalizeFrame

\* The caller drops the returned dict; the processor keeps no state
NormalizeForget ==
    /\ nz.pc = "returned"
    /\ nz' = NoNormalize
    /\ NormalizeFrame

NextNormalize ==
    \/ GetLlmFriendlyContent
    \/ NormalizeForget

SpecNormalize == InitStore /\ [][NextNormalize]_vars

----------------------------------------------------------------------------
(* Properties of the job lifecycle *)

Terminal == {COMPLETED, FAILED}

AllowedTransitions ==
    {<<PENDING, RUNNING>>, <<RUNNING, COMPLETED>>, <<RUNNING, FAILED>>,
     <<PENDING, FAILED>>}

\* C1: a job's status changes only along Pending->Running,
\* Running->Completed, Running->Failed or Pending->Failed; a Completed or
\* Failed job never changes status again.
C1_StatusTransitions ==
    [][\A j \in DOMAIN jobs :
          jobs'[j].status # jobs[j].status
             => <<jobs[j].status, jobs'[j].status>> \in AllowedTransitions]_vars

\* C2: a job that cancel_job has marked Failed with error "Cancelled by user"
\* (the state a successful cancellation leaves) stays Failed and no
\* orchestrator call is made for it.
C2_CancelledNeverRuns ==
    \A j \in DOMAIN jobs :
        jobs[j].error = "Cancelled by user" =>
            /\ jobs[j].status = FAILED
            /\ ~tasks[j].worked

\* C3: a cancel request changes the jobs collection only when the addressed
\* job is Pending at that moment; on a Running, Completed, Failed or absent
\* job it answers 404 and every job document is left as it was.
C3_CancelFrame ==
    [][resp = NoResp /\ resp' # NoResp =>
          LET id == resp'.id IN
          IF id \in DOMAIN jobs /\ jobs[id].status = PENDING
          THEN /\ resp'.code = 200
               /\ jobs'[id].status = FAILED
               /\ \A k \in DOMAIN jobs : k # id => jobs'[k] = jobs[k]
          ELSE /\ resp'.code = 404
               /\ jobs' = jobs]_vars

\* A cancel request on a Running job was answered 404.
C3_Witness ==
    /\ resp.code = 404
    /\ resp.id \in DOMAIN jobs
    /\ jobs[resp.id].status = RUNNING
    /\ jobs[resp.id].error = Null

\* C4: once the runner has handled an exception of the import or of an
\* orchestrator call, the job is Failed, its error is the exception's string
\* and completed_at is set; the task ends in its except block, it does not
\* leave run_scraping_job by the exception.
C4_ExceptionRecorded ==
    \A j \in DOMAIN tasks :
        tasks[j].exc # Null =>
            /\ tasks[j].pc \in {"except", "done"}
            /\ tasks[j].pc = "done" =>
                  /\ jobs[j].status = FAILED
                  /\ jobs[j].error = tasks[j].exc
                  /\ jobs[j].completed_at # Null

\* The import of the scraper modules failed and the runner has returned.
C4_Witness ==
    \E j \in DOMAIN tasks :
        /\ tasks[j].pc = "done"
        /\ tasks[j].exc = ImportErrorMessage
        /\ jobs[j].status = FAILED

\* C5: every created job eventually has status completed or failed: at every
\* moment there is a later one at which all jobs created so far are terminal.
C5_EventuallyTerminal ==
    []<>(\A j \in DOMAIN jobs : jobs[j].status \in Terminal)

\* A job that was never cancelled has run to the end of run_scraping_job.
C5_Witness ==
    \E j \in DOMAIN tasks :
        /\ tasks[j].pc = "done"
        /\ jobs[j].error # "Cancelled by user"
        /\ jobs[j].status = COMPLETED

----------------------------------------------------------------------------
(* Properties of the merge-on-write store *)

\* The documents of coll that carry the (name, address) pair of b
PairMatches(coll, b) ==
    {i \in DOMAIN coll :
        /\ "name" \in DOMAIN coll[i] /\ coll[i].name = b.name
        /\ "address" \in DOMAIN coll[i] /\ coll[i].address = b.address}

\* The documents of coll that carry the website of b
WebsiteMatches(coll, b) ==
    {i \in DOMAIN coll : "website" \in DOMAIN coll[i] /\ coll[i].website = b.website}

\* Saver 1 takes its write step on a document it found
MergeStep(e) ==
    /\ sv[1].pc = "write"
    /\ sv[1].existing = e
    /\ e # 0
    /\ sv'[1] # sv[1]

\* C6: for every entity E with a non-empty name and address and every store,
\* after save_businesses([E]) has run twice in sequence exactly one stored
\* record has E's (name, address), and the second save counted an update and
\* no insert.
C6_SavedTwiceOneRecord ==
    twice.stage = 2 /\ sv[1].pc = "ret" =>
        /\ CountIdentity(store, twice.ent) = 1
        /\ sv[1].saved = 0
        /\ sv[1].updated = 1

C8_IncomingScalarWins ==
    [][\A e \in DOMAIN store : MergeStep(e) =>
          \A k \in {"phone", "website"} :
              Has(store[e], k) /\ Has(sv[1].business, k) =>
                  store'[e][k] = sv[1].business[k]]_vars

\* C9: the write of save_businesses inserts a new record exactly when no
\* stored record has the entity's (name, address), both being non-empty;
\* otherwise, the website being non-empty, exactly when no stored record has
\* its website; and always when the entity has neither.  When it does not
\* insert, the only record it changes is one with that identity.
C9_IdentityLookup ==
    [][sv[1].pc = "write" /\ sv'[1] # sv[1] =>
          LET b == sv[1].business
              matches == IF HasNameAddress(b) THEN PairMatches(store, b)
                         ELSE IF HasWebsite(b) THEN WebsiteMatches(store, b)
                         ELSE {}
          IN  IF matches = {}
              THEN /\ Len(store') = Len(store) + 1
                   /\ \A i \in DOMAIN store : store'[i] = store[i]
              ELSE /\ Len(store') = Len(store)
                   /\ \A i \in DOMAIN store :
                          store'[i] # store[i] => i \in matches]_vars

\* C9 witness: an entity with a name, no address and a website has been
\* merged into the stored record with that website, which had no name
C9_Witness ==
    /\ sv[1].pc = "ret"
    /\ sv[1].updated = 1
    /\ Has(sv[1].business, "name") /\ ~Has(sv[1].business, "address")
    /\ HasWebsite(sv[1].business)
    /\ ~Has(sv[1].snapshot, "name")
    /\ store[sv[1].existing].website = sv[1].business.website
    /\ store[sv[1].existing].name = sv[1].business.name

\* C10: whenever two concurrent save_businesses calls that carry entities
\* with the same (name, address) have both returned, the store holds exactly
\* one record with that (name, address).
C10_ConcurrentOneRecord ==
    (\A p \in Savers : sv[p].pc \in {"ret", "idle"}) =>
        \A i, j \in DOMAIN store :
            HasNameAddress(store[i]) /\ j \in PairMatches(store, store[i]) => i = j

\* d.get(k), None for a key d does not have
Get(d, k) == IF k \in DOMAIN d THEN d[k] ELSE Null

Timestamps == {"created_at", "updated_at"}

\* The two collections hold the same records, timestamps aside: record by
\* record, d.get(k) is the same for every other key
AgreeButTimestamps(c1, c2) ==
    /\ Len(c1) = Len(c2)
    /\ \A i \in DOMAIN c1 :
           \A k \in (DOMAIN c1[i] \cup DOMAIN c2[i]) \ Timestamps :
               Get(c1[i], k) = Get(c2[i], k)

----------------------------------------------------------------------------
(* Properties of the extraction service *)

\* C12: for every input list of N items and either method,
\* execute_data_extraction returns N results, result i being the one of input
\* item i, also when a batch raised and its items got error responses.
C12_OrderPreserved ==
    /\ ex.origin = [i \in 1..Len(ex.results) |-> i]
    /\ \A i \in DOMAIN ex.results :
           \/ ex.results[i] = ex.own[i]
           \/ ex.results[i] = ErrorResponse(ex.schema_type,
                                  "Batch processing failed", ex.input[i].url)
    /\ ex.pc = "returned" => Len(ex.results) = Len(ex.input)

\* C12 witness: three items in two batches, the first batch raised after one
\* of its items had returned, the second batch returned a result of its own
C12_Witness ==
    /\ ex.pc = "returned"
    /\ Len(ex.results) = 3
    /\ ex.own[1] = NoResult
    /\ ex.own[2] # NoResult
    /\ ex.results[2] # ex.own[2]
    /\ ex.results[3] = ex.own[3]
    /\ IsSuccessful(ex.results[3])

\* C13: within one batch, no failure of an item, an exception of its crawler
\* start included, changes the result of another item: every item whose own
\* process_item returned a success is returned with success true.
C13_FailureIsolation ==
    \A i \in DOMAIN ex.results :
        ex.own[i] # NoResult /\ ex.own[i].metadata.result.success =>
            ex.results[i].metadata.result.success

\* C14: for each item the other method is called exactly when the primary
\* method has returned a result with success false, after the primary call,
\* before the item's result is returned and at most once, whichever method is
\* the primary one.
C14_FallbackOnFailure ==
    \A k \in DOMAIN it :
        LET item == it[k]
        IN  /\ Len(item.log) \in {1, 2}
            /\ item.log[1] = ex.method
            /\ Len(item.log) = 2 =>
                   item.log[2] # ex.method /\ Unsuccessful(item.primary)
            /\ Unsuccessful(item.primary) => Len(item.log) = 2
            /\ item.pc = "done" =>
                   /\ item.primary # NoResult
                   /\ Len(item.log) = 1 => item.result = item.primary

\* C14 witness: crawl4ai was the primary method and returned a failure, the
\* direct method was called next and its success is the item's result
C14_Witness ==
    /\ ex.method = "crawl4ai"
    /\ 1 \in DOMAIN it
    /\ it[1].pc = "done"
    /\ it[1].log = <<"crawl4ai", "direct">>
    /\ Unsuccessful(it[1].primary)
    /\ it[1].result.metadata.result.success

\* C15: when every crawler run for an item has reported a failure and the
\* crawl4ai method has returned, the crawler was run max_retry_attempts + 1
\* times for the item.
C15_RetriesExhausted ==
    \A k \in DOMAIN it :
        /\ it[k].attempts >= 1
        /\ it[k].failures = it[k].attempts
        /\ it[k].pc # "arun"
        => it[k].attempts = max_retry_attempts + 1

\* The keys of a result of the schema are all there
HasSchemaKeys(schema_type, result) ==
    IF schema_type = "website"
    THEN /\ DOMAIN result = {"metadata", "entities"}
         /\ DOMAIN result.metadata = {"source", "result", "relevant_urls"}
         /\ DOMAIN result.metadata.source = {"name", "url", "type", "summary"}
         /\ DOMAIN result.metadata.result =
                {"success", "entities_found", "error", "error_details"}
    ELSE /\ DOMAIN result = {"metadata", "urls"}
         /\ DOMAIN result.metadata = {"context", "result"}
         /\ DOMAIN result.metadata.context = {"query", "url", "results"}
         /\ DOMAIN result.metadata.result =
                {"success", "urls_found", "error", "error_details"}

\* C16: every result of execute_data_extraction, for either schema, has all
\* keys of its schema, and on failure its entities or urls list is there and
\* empty.
C16_SchemaShape ==
    \A i \in DOMAIN ex.results :
        /\ HasSchemaKeys(ex.schema_type, ex.results[i])
        /\ ~ex.results[i].metadata.result.success =>
               ex.results[i][ListKey(ex.schema_type)] = <<>>

\* C17: in every result of the extraction service, success false implies an
\* empty entities or urls list.
C17_FailureHasEmptyList ==
    \A i \in DOMAIN ex.results :
        LET result == ex.results[i]
        IN  result.metadata.result.success
            \/ Len(result[ListKey(ex.schema_type)]) = 0

\* The positions of the elements of an array that have the expected
\* structure
StructuredAt(elems) ==
    {i \in DOMAIN elems :
        elems[i].kind = "object" /\ IsValidSchemaStructure(elems[i])}

\* C18: for both methods, when the response is a JSON array the result is the
\* schema validation of its first element with the expected structure, and
\* an error response when no element has it.
C18_FirstStructuredElement ==
    parse.stage = 2 /\ parse.content.kind = "array" =>
        LET elems == parse.content.elems
            at == StructuredAt(elems)
        IN  IF at = {}
            THEN ~parse.result.metadata.result.success
            ELSE LET first == elems[CHOOSE i \in at : \A j \in at : i <= j]
                 IN  IF first.valid
                     THEN parse.result = ModelDump(parse.schema_type, first)
                     ELSE ~parse.result.metadata.result.success

\* C19: in both orchestrators, the input list handed to the extraction
\* service holds no result of a failed fetch (an error-shaped result, or the
\* content of a page with a non-200 status).
C19_NoFailedFetchExtracted ==
    orch.pc \in {"extracting", "returned"} =>
        \A i \in DOMAIN ex.input : ex.input[i].fetch = "content"

\* The job's one fetch came with status 200 and 25,000 characters and the
\* extraction returned success with one entity
OneEntityScenario ==
    /\ orch.scraped = <<Item(1, "content")>>
    /\ orch.out = <<ModelDump("website", Good(TRUE, 1))>>

\* C20: a Website job on one URL whose fetch returns status 200 with 25,000
\* characters and whose extraction returns success with one entity ends
\* Completed, and the store then holds one business record for the entity
\* whose source_url is the job's input URL.
C20_WebsiteJobStoresSource ==
    \A j \in DOMAIN tasks :
        tasks[j].pc = "done" /\ OneEntityScenario =>
            /\ jobs[j].status = COMPLETED
            /\ Len(store) = 1
            /\ store[1].name = LLMEntity.name
            /\ "source_url" \in DOMAIN store[1]
            /\ store[1].source_url # Null
            /\ store[1].source_url = orch.scraped[1].url

\* The job's one fetch, if it was made, came with status 200 and 500
\* characters
ShortContentScenario ==
    /\ Len(jobs) = 1
    /\ jobs[1].type = WEBSITE
    /\ GetLen(jobs[1].parameters.urls) = 1
    /\ jobs[1].error # "Cancelled by user"
    /\ orch.fetched \in {<<>>, <<Fetched(200, 500, TRUE)>>}
    /\ orch.pc # "idle" => orch.fetched # <<>>

\* C21: a Website job whose only URL fetches 500 characters with status 200
\* keeps that result out of the extraction input, never calls the LLM and
\* ends Completed with entities_found = 0 in its result.
C21_ShortContentCompletes ==
    \A j \in DOMAIN tasks :
        tasks[j].pc = "done" /\ ShortContentScenario =>
            /\ ex = NoExtraction
            /\ it = <<>>
            /\ jobs[j].status = COMPLETED
            /\ jobs[j].result = "summary"
            /\ orch.entities_found = 0

\* The minimum length a backend's content is held against: min_html_length
\* of WebsiteScrapingConfig for the direct backend, of the browser manager
\* for the browser backend
MinLength(backend) ==
    IF backend = "direct" THEN min_html_length ELSE browser_min_html_length

\* C22: a fetch by either backend that returns content shorter than the
\* minimum length has status CAPTCHA_DETECTED when the content holds a
\* blocking signature and HTML_TOO_SHORT otherwise; content of at least the
\* minimum length has status 200.
C22_ShortContentStatus ==
    ft.pc = "done" /\ ~ft.failed /\ ft.result.kind = "return" =>
        IF ft.page.length < MinLength(ft.backend)
        THEN ft.result.status_code =
                 IF ft.page.blocking THEN Sentinel("CAPTCHA_DETECTED")
                 ELSE Sentinel("HTML_TOO_SHORT")
        ELSE ft.page.status = 200 => ft.result.status_code = Code(200)

\* C23: a fetch never raises; a navigation or transport failure at any step
\* is returned as a result with an error status.
C23_FetchNeverRaises ==
    ft.pc = "done" /\ ft.failed =>
        /\ ft.result.kind = "return"
        /\ ft.result.status_code \in {Sentinel("UNEXPECTED_ERROR"), ErrorText}

\* C24: every update of current_step, total_steps or progress_message also
\* appends a log entry with the same step and message: whenever
\* progress_message is set, the last log entry is (current_step,
\* progress_message).
C24_ProgressLogged ==
    \A j \in DOMAIN jobs :
        jobs[j].progress_message # Null =>
            /\ jobs[j].logs # <<>>
            /\ jobs[j].logs[Len(jobs[j].logs)] =
                   [message |-> jobs[j].progress_message,
                    step |-> jobs[j].current_step]

\* C25: in a pipeline run the list of URLs handed to the scrape phase has no
\* URL twice, whatever the search phase returned, for a Pipeline job run by
\* run_scraping_job and for run_pipeline of the command line.
C25_HandedUrlsDistinct ==
    pl.scraping =>
        \A i, k \in DOMAIN pl.handed :
            pl.handed[i] = pl.handed[k] => i = k

\* The search phase of a Pipeline job has returned, and what it returned has
\* no URLs: a falsy value, or a dict whose "urls" is missing or empty
SearchYieldedNoUrls(j) ==
    /\ jobs[j].type = PIPELINE
    /\ tasks[j].worked /\ tasks[j].exc = Null
    /\ ~HasUrls(tasks[j].search_result)

\* C26: a Pipeline job whose search phase yields no URLs never starts the
\* scrape phase, and ends Completed (not Failed) with a non-empty result.
C26_NoUrlsCompletes ==
    \A j \in DOMAIN tasks :
        SearchYieldedNoUrls(j) =>
            /\ tasks[j].pc \in {"pipeline_progress1", "complete", "done"}
            /\ tasks[j].result # "summary"
            /\ tasks[j].pc = "done" =>
                  /\ jobs[j].status = COMPLETED
                  /\ jobs[j].result # Null

C26_Witness ==
    \E j \in DOMAIN tasks :
        /\ SearchYieldedNoUrls(j)
        /\ tasks[j].search_result = "search_nourls"
        /\ tasks[j].pc = "done"
        /\ jobs[j].status = COMPLETED
        /\ jobs[j].result = "default_message"

\* C27: no work of batch N+1 begins before every item of batch N has produced
\* its result, and the batches are taken in input order: a step that starts
\* the tasks of a later batch leaves a batch whose every task has returned.
C27_BatchesSequential ==
    [][ex'.pc = "batch" /\ ex'.start # ex.start =>
          /\ ex'.start = ex.start + max_batch_size
          /\ \A k \in DOMAIN it : it[k].result # NoResult]_vars

\* C28: during scrape_with_direct_requests at most max_concurrent_requests
\* URLs hold the semaphore (have their request or their delay in progress),
\* no URL is fetched more than once, and the call returns, after one fetch of
\* every URL, one result per input URL in input order.
C28_SemaphoreBound ==
    /\ sem.pc = "gather" =>
          Cardinality(Holders) <= sem.max_concurrent_requests
    /\ \A k \in DOMAIN sem.task :
          /\ sem.task[k].fetches <= 1
          /\ sem.task[k].pc \in {"sleep", "done"} => sem.task[k].fetches = 1
    /\ sem.pc = "returned" =>
          /\ Len(sem.out) = Len(sem.task)
          /\ \A k \in DOMAIN sem.task :
                /\ sem.task[k].fetches = 1
                /\ sem.out[k] = sem.task[k].result
                /\ sem.out[k].url = k

C28_Witness ==
    /\ sem.pc = "gather"
    /\ sem.max_concurrent_requests >= 1
    /\ Cardinality(Holders) = sem.max_concurrent_requests
    /\ Locked(sem.value)
    /\ \E k \in DOMAIN sem.task : sem.task[k].pc = "acquire"
    /\ \E k \in DOMAIN sem.task : sem.task[k].pc = "done"

\* C29: extract_business_urls_from_searches raises, without fetching a page
\* or calling the extraction service, when it is given neither search URLs nor
\* search terms, or no search URLs and only blank terms.
C29_NoInputRaises ==
    /\ se.pc # "idle"
    /\ se.search_urls = <<>>
    /\ \A k \in DOMAIN se.search_terms : Blank(se.search_terms[k])
    => /\ se.pc = "raised"
       /\ ~se.fetched
       /\ ~se.extracted

C29_Witness ==
    /\ se.pc = "raised"
    /\ se.search_urls = <<>>
    /\ se.search_terms = << <<>>, <<" ", " ">> >>
    /\ ~se.fetched /\ ~se.extracted

\* C30: each of the two search URL builders fails if and only if the search
\* term is empty or whitespace-only, and returns a URL for every other term.
C30_BuilderFailsIffBlank ==
    gu.pc = "done" =>
        IF Blank(gu.search_term)
        THEN gu.result = Raises
        ELSE gu.result.kind = "return"

\* C31: every application/json script block of a page appears in the
\* normalizer's json_scripts, as its parsed value or, when it cannot be
\* parsed, as its raw string, also when some blocks parse and others do not.
C31_EveryBlockKept ==
    nz.pc = "returned" =>
        \A i \in DOMAIN nz.scripts :
            \E k \in DOMAIN nz.json_scripts :
                nz.json_scripts[k] =
                    IF nz.scripts[i].kind = "json"
                    THEN ParsedJson(nz.scripts[i])
                    ELSE RawScript(nz.scripts[i])

\* C32: when the stored record and the incoming entity of the same identity
\* both carry a mapping for hours (or social_media), the mapping stored by the
\* update has every key of either one, with the incoming value for a key of
\* the incoming mapping and the stored value for every other key.
C32_MappingsMergedKeywise ==
    [][\A f \in DictFields :
          LET loc == sv[1] IN
          /\ loc.pc = "write" /\ loc.existing # 0
          /\ f \in DOMAIN store[loc.existing]
          /\ f \in DOMAIN loc.business
          => LET old == store[loc.existing][f]
                 new == loc.business[f]
                 merged == store'[loc.existing][f]
             IN  /\ Keys(merged) = Keys(old) \cup Keys(new)
                 /\ new \subseteq merged
                 /\ \A kv \in old : kv[1] \notin Keys(new) => kv \in merged]_vars

C32_Witness ==
    /\ sv[1].pc = "ret" /\ sv[1].updated = 1
    /\ sv[1].snapshot # NoBusiness
    /\ "hours" \in DOMAIN sv[1].snapshot
    /\ sv[1].snapshot.hours = {<<"k1", "v1">>, <<"k2", "v1">>}
    /\ "hours" \in DOMAIN sv[1].business
    /\ sv[1].business.hours = {<<"k1", "v2">>}
    /\ store[sv[1].existing].hours = {<<"k1", "v2">>, <<"k2", "v1">>}

\* The URLs, in input order, whose fetch came with status 200 and at least
\* min_html_length characters
\* C34: whatever fails, the call of process_website_urls ends with a summary
\* whose status is completed, whose urls_processed is the number of input
\* URLs and whose entities_found is the number of entities collected for
\* persistence
C34_AlwaysSummary ==
    [][\A j \in DOMAIN tasks :
          tasks[j].pc = "website_call" /\ tasks'[j].pc # "website_call"
          => /\ tasks'[j].pc = "complete"
             /\ orch'.summary =
                    Summary(GetLen(jobs[j].parameters.urls),
                            Len(SuccessfulResults(orch.out)),
                            orch'.summary.saved_to_db)]_vars

\* C39: the summary of process_urls says saved_to_db only when
\* save_businesses has written the collected entities; it says false when
\* save_businesses raised
C39_SavedOnlyIfWritten ==
    orch.pc = "done" /\ orch.save_raised => ~orch.summary.saved_to_db

StepsNonDecreasing(logs) ==
    \A i \in 1..(Len(logs) - 1) : logs[i].step <= logs[i + 1].step

\* Every entry of the log before the step is still there, unchanged and at
\* its place, after the step
LogExtended(before, after) ==
    /\ Len(after) >= Len(before)
    /\ SubSeq(after, 1, Len(before)) = before

\* C37: in every reachable state of a job current_step is at most
\* total_steps and the steps of successive log entries never decrease, and
\* no step removes or rewrites an entry of the job's log
C37_ProgressMonotone ==
    /\ [](\A j \in DOMAIN jobs :
             /\ jobs[j].current_step <= jobs[j].total_steps
             /\ StepsNonDecreasing(jobs[j].logs))
    /\ [][\A j \in DOMAIN jobs : LogExtended(jobs[j].logs, jobs'[j].logs)]_vars

\* A Pipeline job has logged its three progress updates, the last at step 2
\* of 2
C37_Witness ==
    \E j \in DOMAIN jobs :
        /\ Len(jobs[j].logs) = 3
        /\ jobs[j].logs[3].step = 2
        /\ jobs[j].current_step = 2
        /\ jobs[j].total_steps = 2

\* saved_count of the running call before and after a step; a step that
\* starts or returns the call counts nothing
SavedByStep ==
    IF sv[1].pc # "idle" /\ sv'[1].pc # "idle"
    THEN sv'[1].saved - sv[1].saved
    ELSE 0

BothAdded(p, q, e) ==
    /\ p # q
    /\ sv[p].pc = "ret" /\ sv[q].pc = "ret"
    /\ sv[p].updated = 1 /\ sv[q].updated = 1
    /\ sv[p].existing = e /\ sv[q].existing = e
    /\ Has(sv[p].business, "phone") /\ ~Has(sv[p].business, "website")
    /\ Has(sv[q].business, "website") /\ ~Has(sv[q].business, "phone")
    /\ ~Has(sv[p].snapshot, "phone")
    /\ ~Has(sv[q].snapshot, "website")

\* C35: after two concurrent save_businesses calls on the same stored
\* record, one adding phone and the other adding website, the stored record
\* has both fields, whatever the interleaving of their reads and writes
C35_BothFieldsKept ==
    \A p, q \in Savers : \A e \in DOMAIN store :
        BothAdded(p, q, e) => Has(store[e], "phone") /\ Has(store[e], "website")

RECURSIVE LongEnough(_, _)
LongEnough(fetched, url) ==
    IF url > Len(fetched) THEN <<>>
    ELSE (IF fetched[url].status_code = 200
             /\ fetched[url].length >= min_html_length
          THEN <<url>> ELSE <<>>) \o LongEnough(fetched, url + 1)

\* C33: in the Website orchestrator the extraction input is exactly the
\* sub-list, in input URL order, of the fetch results with status 200 and at
\* least min_html_length characters, whatever text the page holds (stated for
\* pages that the HTML normalizer processes without raising).
C33_ExtractionInputExact ==
    /\ orch.kind = "website"
    /\ orch.pc \in {"extracting", "returned"}
    /\ orch.fetched # <<>>
    /\ \A url \in DOMAIN orch.fetched : orch.fetched[url].clean
    => [i \in DOMAIN ex.input |-> ex.input[i].url] = LongEnough(orch.fetched, 1)

====
